---- MODULE Spec2Model ----
(***************************************************************************)
(* Model of the FCT miner: the mining session loop of config.ts            *)
(* (miningLoop, mineFacetTransactionWithDashboard, MiningDashboard), the   *)
(* auto controller that runs it (main of config.ts) and the                *)
(* stuck-transaction canceller of cancel-range.ts (main, cancelNonce).     *)
(*                                                                         *)
(* Amounts of the session loop are wei (bigint in the source) over small   *)
(* ranges.  Fees of the canceller are JavaScript numbers in gwei that the  *)
(* code rounds to 6 decimals; they are held as integers in micro-gwei      *)
(* (1e-6 gwei), the resolution of toFixed(6).                              *)
(***************************************************************************)
EXTENDS Integers, Sequences, FiniteSets, TLC

VARIABLES
    \* ---- miningLoop (config.ts) ----
    spendCap,           \* parameter of miningLoop
    STOP_ON_TX_FAIL,    \* configuration flag
    totalSpent,
    totalFctMinted,
    transactionCount,
    estimatedCost,      \* const of the current iteration
    mpc,                \* position of miningLoop / mineFacetTransactionWithDashboard
    \* ---- MiningDashboard ----
    currentTx,          \* the transaction in progress, or NoTx
    stats,              \* totals shown by the dashboard
    dashRunning,        \* live updates running (start() .. stop())
    \* ---- history of the session (observers, not read by the program) ----
    completed,          \* results returned by mineFacetTransactionWithDashboard
    submitted,          \* number of transactions broadcast
    estIter,            \* iteration in which estimatedCost was computed
    failures,           \* number of transactions that ended as failed
    inFlight,           \* transactions broadcast and neither completed nor failed
    reports,            \* statuses the dashboard was given for the last transaction
    \* ---- cancel-range.ts ----
    FROM, TO, latest,   \* nonce range and the confirmed nonce read by main
    TIP, MAX,           \* fee state, micro-gwei
    BUMP,               \* multiplier, as <<numerator, denominator>>
    n,                  \* loop variable of main
    i,                  \* loop variable of cancelNonce
    cpc,                \* position of main / cancelNonce
    \* ---- history of the sweep (observers) ----
    lastSent,           \* the last transaction handed to wal.sendTransaction
    sentCount,          \* transactions the current cancelNonce call handed to it
    finished,           \* the nonces whose cancelNonce call has returned
    outcome,            \* how the last cancelNonce call ended
    receipt,            \* status of the last receipt that arrived
    lastMsg,            \* message of the last error caught in cancelNonce
    errorAt,            \* the call that raised it: "send" or "wait"
    tip0,               \* TIP at the entry of the current cancelNonce call
    rejections,         \* number of escalations so far in the sweep
    \* ---- auto controller: main (config.ts) ----
    env,                \* the configuration read from the environment
    waitCycles,
    apc,                \* position of main
    balance,            \* const of the current cycle
    currentGwei,        \* const of the current cycle, when the gas gate is on
    effective,          \* effectiveMaxGwei / effectiveMaxCost / effectiveMinEff
    est,                \* the estimate of the current cycle, or NoEst
    \* ---- history of the run (observers) ----
    cycles,             \* outer cycles started
    gateReason,         \* the gate that ended the current cycle, or "none"
    reached,            \* the last step the current cycle came to
    gatedRun,           \* cycles gated out since the last session was started
    sessions,           \* calls of miningLoop
    returned,           \* what the session did that main has just come back from
    \* ---- pickBestSizeAndEstimates (config.ts), called on its own ----
    opts,               \* minKb, maxKb and the two thresholds
    ppc,                \* position of pickBestSizeAndEstimates
    pending,            \* candidates not yet evaluated
    best,               \* let best, NoEst for null
    evaluated           \* the estimates of the candidates so far (observer)

miningVars == <<spendCap, STOP_ON_TX_FAIL, totalSpent, totalFctMinted,
                transactionCount, estimatedCost, mpc, currentTx, stats,
                dashRunning, completed, submitted, estIter, failures,
                inFlight, reports>>
cancelVars == <<FROM, TO, latest, TIP, MAX, BUMP, n, i, cpc, lastSent,
                sentCount, finished, outcome, receipt, lastMsg, errorAt,
                tip0, rejections>>
autoVars == <<env, waitCycles, apc, balance, currentGwei, effective, est,
              cycles, gateReason, reached, gatedRun, sessions, returned>>
pickVars == <<opts, ppc, pending, best, evaluated>>
vars == <<miningVars, cancelVars, autoVars, pickVars>>

(***************************************************************************)
(* Bounds                                                                  *)
(***************************************************************************)
MaxCap == 4          \* largest spendCap, wei
MaxCost == 3         \* largest cost estimate, wei
MaxMint == 1         \* largest mint amount of one transaction
MaxTx == 3           \* iterations of the session loop that are explored
MaxNonce == 2        \* nonces of the sweep are 0..MaxNonce
MaxRejections == 9   \* escalations the RPC provokes in one sweep
MaxCycles == 3       \* outer cycles of the auto controller that are explored
MaxSessionTx == 1    \* iterations explored of a session the controller runs

Costs == 0..MaxCost
Mints == 0..MaxMint

NoTx == [status |-> "none"]

(***************************************************************************)
(* MiningDashboard                                                         *)
(***************************************************************************)
\* constructor: the defaults overridden by initialStats {sessionTarget, remainingBudget}
NewStats(cap) ==
    [totalTransactions |-> 0, totalETHSpent |-> 0, totalFCTMinted |-> 0,
     remainingBudget |-> cap, sessionTarget |-> cap]

\* startTransaction(txData): currentTx is replaced
startTransaction(st, cost) ==
    [status |-> st, ethCost |-> cost, fctMinted |-> 0]

\* updateTransaction({status}): only when a transaction is in progress
updateTransaction(tx, st) ==
    IF tx # NoTx THEN [tx EXCEPT !.status = st] ELSE tx

\* what the dashboard was given by startTransaction and updateTransaction:
\* updateTransaction does nothing without a transaction in progress
reported(log, tx, st) == IF tx # NoTx THEN Append(log, st) ELSE log

\* variant: the remaining budget is not charged
completeTransactionKeepsBudget(s, ethSpent, fctMinted) ==
    [s EXCEPT !.totalTransactions = @ + 1,
              !.totalETHSpent = @ + ethSpent,
              !.totalFCTMinted = @ + fctMinted]

\* completeTransaction(ethSpent, fctMinted): the totals of the dashboard
completeTransaction(s, ethSpent, fctMinted) ==
    [s EXCEPT !.totalTransactions = @ + 1,
              !.totalETHSpent = @ + ethSpent,
              !.totalFCTMinted = @ + fctMinted,
              !.remainingBudget = @ - ethSpent]

(***************************************************************************)
(* miningLoop                                                              *)
(***************************************************************************)
\* while (totalSpent < spendCap)
LoopCondition(spent, cap) == spent < cap

\* variant: the budget check ignores the estimate of the next transaction
OverBudgetIgnoringEstimate(spent, cost, cap) == spent > cap

\* if (totalSpent + estimatedCost > spendCap) break;
OverBudget(spent, cost, cap) == spent + cost > cap

\* variant: a result is added to the total twice
AccumulateTwice(total, amount) == total + amount + amount

\* totalSpent += result.ethSpent; totalFctMinted += result.fctMinted
Accumulate(total, amount) == total + amount

\* variant: the loop is left without stopping the dashboard
FinallyWithoutStop(pos) ==
    /\ mpc' = pos
    /\ UNCHANGED dashRunning

\* finally { dashboard.stop(); showFinalSummary(...) }
Finally(pos) ==
    /\ mpc' = pos
    /\ dashRunning' = FALSE

MiningIdle ==
    /\ spendCap = 0 /\ STOP_ON_TX_FAIL = TRUE
    /\ totalSpent = 0 /\ totalFctMinted = 0 /\ transactionCount = 0
    /\ estimatedCost = 0 /\ mpc = "idle"
    /\ currentTx = NoTx /\ stats = NewStats(0) /\ dashRunning = FALSE
    /\ completed = <<>> /\ submitted = 0 /\ estIter = 0 /\ failures = 0
    /\ inFlight = 0 /\ reports = <<>>

\* miningLoop entered: dashboard constructed and started, totals zero
MiningInit ==
    /\ spendCap \in 0..MaxCap
    /\ STOP_ON_TX_FAIL \in BOOLEAN
    /\ totalSpent = 0 /\ totalFctMinted = 0 /\ transactionCount = 0
    /\ estimatedCost = 0
    /\ mpc = "loop"
    /\ currentTx = NoTx
    /\ stats = NewStats(spendCap)
    /\ dashRunning = TRUE
    /\ completed = <<>> /\ submitted = 0 /\ estIter = 0 /\ failures = 0
    /\ inFlight = 0 /\ reports = <<>>

\* the iterations of the loop that are explored
Iterations == IF apc = "idle" THEN MaxTx ELSE MaxSessionTx

\* the while condition is false: the loop ends, finally runs
LoopExit ==
    /\ UNCHANGED <<cancelVars, autoVars, pickVars, inFlight, reports>>
    /\ mpc = "loop"
    /\ ~LoopCondition(totalSpent, spendCap)
    /\ Finally("summary")
    /\ UNCHANGED <<spendCap, STOP_ON_TX_FAIL, totalSpent, totalFctMinted,
                   transactionCount, estimatedCost, currentTx, stats,
                   completed, submitted, estIter, failures>>

\* transactionCount++; estimateTransactionCost rejects (an RPC error of
\* getBlock): nothing catches it in miningLoop, finally runs, the error leaves
EstimateThrows ==
    /\ UNCHANGED <<cancelVars, autoVars, pickVars, inFlight, reports>>
    /\ mpc = "loop"
    /\ LoopCondition(totalSpent, spendCap)
    /\ transactionCount < Iterations
    /\ transactionCount' = transactionCount + 1
    /\ Finally("threw")
    /\ UNCHANGED <<spendCap, STOP_ON_TX_FAIL, totalSpent, totalFctMinted,
                   estimatedCost, currentTx, stats, completed, submitted,
                   estIter, failures>>

\* transactionCount++; the estimate does not fit the budget: break
EstimateOverBudget ==
    /\ UNCHANGED <<cancelVars, autoVars, pickVars, inFlight, reports>>
    /\ mpc = "loop"
    /\ LoopCondition(totalSpent, spendCap)
    /\ transactionCount < Iterations
    /\ \E cost \in Costs :
        /\ OverBudget(totalSpent, cost, spendCap)
        /\ estimatedCost' = cost
    /\ transactionCount' = transactionCount + 1
    /\ estIter' = transactionCount + 1
    /\ Finally("summary")
    /\ UNCHANGED <<spendCap, STOP_ON_TX_FAIL, totalSpent, totalFctMinted,
                   currentTx, stats, completed, submitted, failures>>

\* transactionCount++; the estimate fits: dashboard.startTransaction, then
\* mineFacetTransactionWithDashboard is entered and awaits getGasPrice
EstimateOk ==
    /\ UNCHANGED <<cancelVars, autoVars, pickVars, inFlight>>
    /\ mpc = "loop"
    /\ LoopCondition(totalSpent, spendCap)
    /\ transactionCount < Iterations
    /\ \E cost \in Costs :
        /\ ~OverBudget(totalSpent, cost, spendCap)
        /\ estimatedCost' = cost
        /\ currentTx' = startTransaction("preparing", cost)
        /\ reports' = <<"preparing">>
    /\ transactionCount' = transactionCount + 1
    /\ estIter' = transactionCount + 1
    /\ mpc' = "preparing"
    /\ UNCHANGED <<spendCap, STOP_ON_TX_FAIL, totalSpent, totalFctMinted,
                   stats, dashRunning, completed, submitted, failures>>

\* variant: the gas price is in but "submitting" is not reported
GasPriceOkUnreported ==
    /\ UNCHANGED <<cancelVars, autoVars, pickVars, inFlight>>
    /\ mpc = "preparing"
    /\ mpc' = "submitting"
    /\ UNCHANGED <<spendCap, STOP_ON_TX_FAIL, totalSpent, totalFctMinted,
                   transactionCount, estimatedCost, stats, dashRunning,
                   completed, submitted, estIter, failures, currentTx, reports>>

\* getGasPrice answered: dashboard.updateTransaction({status: "submitting"})
GasPriceOk ==
    /\ UNCHANGED <<cancelVars, autoVars, pickVars, inFlight>>
    /\ mpc = "preparing"
    /\ currentTx' = updateTransaction(currentTx, "submitting")
    /\ reports' = reported(reports, currentTx, "submitting")
    /\ mpc' = "submitting"
    /\ UNCHANGED <<spendCap, STOP_ON_TX_FAIL, totalSpent, totalFctMinted,
                   transactionCount, estimatedCost, stats, dashRunning,
                   completed, submitted, estIter, failures>>

\* variant: the loop goes on after the error whatever STOP_ON_TX_FAIL is
GasPriceThrowsAlwaysContinues ==
    /\ UNCHANGED <<cancelVars, autoVars, pickVars, inFlight>>
    /\ mpc = "preparing"
    /\ currentTx' = updateTransaction(currentTx, "failed")
    /\ reports' = reported(reports, currentTx, "failed")
    /\ failures' = failures + 1
    /\ mpc' = "loop"
    /\ UNCHANGED <<spendCap, STOP_ON_TX_FAIL, totalSpent, totalFctMinted,
                   transactionCount, estimatedCost, stats, completed,
                   submitted, estIter, dashRunning>>

\* getGasPrice rejects before the try block of mineFacetTransactionWithDashboard:
\* the error reaches the catch of miningLoop, which reads STOP_ON_TX_FAIL
GasPriceThrows ==
    /\ UNCHANGED <<cancelVars, autoVars, pickVars, inFlight>>
    /\ mpc = "preparing"
    /\ currentTx' = updateTransaction(currentTx, "failed")
    /\ reports' = reported(reports, currentTx, "failed")
    /\ failures' = failures + 1
    /\ IF STOP_ON_TX_FAIL
         THEN Finally("summary")
         ELSE /\ mpc' = "loop"
              /\ UNCHANGED dashRunning
    /\ UNCHANGED <<spendCap, STOP_ON_TX_FAIL, totalSpent, totalFctMinted,
                   transactionCount, estimatedCost, stats, completed,
                   submitted, estIter>>

\* variant: the loop goes on without waiting for the confirmation
SubmitOkWithoutWaiting ==
    /\ UNCHANGED <<cancelVars, autoVars, pickVars>>
    /\ mpc = "submitting"
    /\ submitted' = submitted + 1
    /\ inFlight' = inFlight + 1
    /\ currentTx' = updateTransaction(currentTx, "confirming")
    /\ reports' = reported(reports, currentTx, "confirming")
    /\ mpc' = "loop"
    /\ UNCHANGED <<spendCap, STOP_ON_TX_FAIL, totalSpent, totalFctMinted,
                   transactionCount, estimatedCost, stats, dashRunning,
                   completed, estIter, failures>>

\* getTransactionCount and sendRawFacetTransaction succeed: the transaction is
\* broadcast; dashboard.updateTransaction({status: "confirming"})
SubmitOk ==
    /\ UNCHANGED <<cancelVars, autoVars, pickVars>>
    /\ mpc = "submitting"
    /\ submitted' = submitted + 1
    /\ inFlight' = inFlight + 1
    /\ currentTx' = updateTransaction(currentTx, "confirming")
    /\ reports' = reported(reports, currentTx, "confirming")
    /\ mpc' = "confirming"
    /\ UNCHANGED <<spendCap, STOP_ON_TX_FAIL, totalSpent, totalFctMinted,
                   transactionCount, estimatedCost, stats, dashRunning,
                   completed, estIter, failures>>

\* mineFacetTransactionWithDashboard caught an error and returned null:
\* its catch and the else branch of miningLoop both report "failed"; break
ReturnedNull ==
    /\ UNCHANGED <<cancelVars, autoVars, pickVars>>
    /\ currentTx' = updateTransaction(updateTransaction(currentTx, "failed"), "failed")
    /\ reports' = reported(reported(reports, currentTx, "failed"),
                        updateTransaction(currentTx, "failed"), "failed")
    /\ failures' = failures + 1
    /\ Finally("summary")
    /\ UNCHANGED <<spendCap, STOP_ON_TX_FAIL, totalSpent, totalFctMinted,
                   transactionCount, estimatedCost, stats, completed,
                   submitted, estIter>>

\* getTransactionCount or sendRawFacetTransaction rejects (submission error)
SubmitFails ==
    /\ mpc = "submitting"
    /\ UNCHANGED inFlight
    /\ ReturnedNull

\* waitForTransactionReceipt rejects or times out, or getTransaction or the
\* second estimateTransactionCost rejects (confirmation error)
ConfirmFails ==
    /\ mpc = "confirming"
    /\ inFlight' = inFlight - 1
    /\ ReturnedNull

\* the receipt arrives; the cost is estimated again and returned as ethSpent
\* (the "completed" status set before the return is overwritten by
\* completeTransaction in the same turn); miningLoop adds the result to the
\* totals and checks the budget again
ConfirmOk ==
    /\ UNCHANGED <<cancelVars, autoVars, pickVars>>
    /\ mpc = "confirming"
    /\ inFlight' = inFlight - 1
    /\ \E actualEthBurned \in Costs, actualFctMinted \in Mints :
        /\ completed' = Append(completed,
                               [ethSpent |-> actualEthBurned,
                                fctMinted |-> actualFctMinted])
        /\ totalSpent' = Accumulate(totalSpent, actualEthBurned)
        /\ totalFctMinted' = Accumulate(totalFctMinted, actualFctMinted)
        /\ stats' = completeTransaction(stats, actualEthBurned, actualFctMinted)
        /\ currentTx' = NoTx
        /\ reports' = reported(reports, currentTx, "completed")
        /\ IF OverBudget(totalSpent', estimatedCost, spendCap)
             THEN Finally("summary")
             ELSE /\ mpc' = "loop"
                  /\ UNCHANGED dashRunning
    /\ UNCHANGED <<spendCap, STOP_ON_TX_FAIL, transactionCount, estimatedCost,
                   submitted, estIter, failures>>

MiningNext ==
    \/ LoopExit
    \/ EstimateThrows
    \/ EstimateOverBudget
    \/ EstimateOk
    \/ GasPriceOk
    \/ GasPriceThrows
    \/ SubmitOk
    \/ SubmitFails
    \/ ConfirmFails
    \/ ConfirmOk

(***************************************************************************)
(* The legacy miningLoop (src/unnamed/part_001), which has no               *)
(* STOP_ON_TX_FAIL: its catch block always breaks.  Everything else, the    *)
(* estimate and mineFacetTransactionWithDashboard included, is the same     *)
(* text as in config.ts, so the same actions model it.                      *)
(***************************************************************************)
\* catch (error) { updateTransaction({ status: "failed" }); ...; break; }
LegacyGasPriceThrows ==
    /\ UNCHANGED <<cancelVars, autoVars, pickVars, inFlight>>
    /\ mpc = "preparing"
    /\ currentTx' = updateTransaction(currentTx, "failed")
    /\ reports' = reported(reports, currentTx, "failed")
    /\ failures' = failures + 1
    /\ Finally("summary")
    /\ UNCHANGED <<spendCap, STOP_ON_TX_FAIL, totalSpent, totalFctMinted,
                   transactionCount, estimatedCost, stats, completed,
                   submitted, estIter>>

\* the steps of the legacy loop
LegacyNext ==
    \/ LoopExit
    \/ EstimateThrows
    \/ EstimateOverBudget
    \/ EstimateOk
    \/ GasPriceOk
    \/ LegacyGasPriceThrows
    \/ SubmitOk
    \/ SubmitFails
    \/ ConfirmFails
    \/ ConfirmOk

\* the two loops side by side: from every state a step of either loop
BothNext ==
    \/ LoopExit
    \/ EstimateThrows
    \/ EstimateOverBudget
    \/ EstimateOk
    \/ GasPriceOk
    \/ GasPriceThrows
    \/ LegacyGasPriceThrows
    \/ SubmitOk
    \/ SubmitFails
    \/ ConfirmFails
    \/ ConfirmOk

(***************************************************************************)
(* cancel-range.ts                                                         *)
(***************************************************************************)
Nonces == 0..MaxNonce

\* Start configurations <<BASE_TIP_GWEI, BASE_MAX_GWEI, BUMP_MULTIPLIER>>:
\* tip and max in micro-gwei, the multiplier as a fraction in lowest terms.
\* The multiplier is above 1.0, the configuration the canceller is described
\* for.  The first entry is the defaults (30 gwei, 60 gwei, 1.25).
Configs ==
    { <<30000000, 60000000, <<5, 4>>>>,
      <<0,        60000000, <<5, 4>>>>,
      <<30000000, 10000000, <<5, 4>>>>,
      <<1,        0,        <<5, 4>>>>,
      <<3,        2,        <<3, 2>>>>,
      <<7,        20,       <<2, 1>>>> }

\* substrings of the lower-cased error message that cancelNonce looks for
Markers == {"nonce too low", "already known", "underpriced", "tip too low", "base fee"}

\* error messages, each as the set of the markers it contains: none (a
\* timeout, a network error), each marker alone, and two messages that
\* contain a marker of both tested groups
Messages ==
    { {} } \cup { {m} : m \in Markers }
           \cup { {"nonce too low", "underpriced"}, {"already known", "base fee"} }

NoSent == [nonce |-> -1]
MaxOf(a, b) == IF a >= b THEN a ELSE b

\* Number((x * BUMP).toFixed(6)): the product rounded to the nearest
\* micro-gwei, a tie rounded up.  x = q*den + r keeps the arithmetic small.
MulFixed6(x, b) ==
    LET num == b[1]
        den == b[2]
        q == x \div den
        r == x % den
    IN q * num + ((2 * r * num + den) \div (2 * den))

\* variant: the product is truncated to 6 decimals instead of rounded
BumpTipTruncated(tip, b) == (tip \div b[2]) * b[1] + (((tip % b[2]) * b[1]) \div b[2])

\* TIP = Number((TIP * BUMP).toFixed(6))
BumpTip(tip, b) == MulFixed6(tip, b)

\* MAX = Number((Math.max(MAX, TIP) * BUMP).toFixed(6)), TIP already bumped
BumpMax(max, newTip, b) == MulFixed6(MaxOf(max, newTip), b)

\* variant: the loop bound is off by one
AttemptsLeftOneMore(k) == k <= 9

\* for (let i=1;i<=8;i++)
AttemptsLeft(k) == k <= 8

\* variant: the confirmed nonces are not skipped
AlreadyConfirmedNever(k, lat) == FALSE

\* if (n < latest) continue
AlreadyConfirmed(k, lat) == k < lat

\* variant: MAX is sent as it is, without Math.max(MAX, TIP)
CancelTxRawMax(nonce, tip, max) ==
    [to |-> "account", value |-> 0, nonce |-> nonce, gas |-> 21000,
     maxPriorityFeePerGas |-> tip, maxFeePerGas |-> max]

\* the argument of wal.sendTransaction; parseGwei is an exact change of unit
\* for a number of at most 6 decimals, the fees stay in micro-gwei here
CancelTx(nonce, tip, max) ==
    [to |-> "account", value |-> 0, nonce |-> nonce, gas |-> 21000,
     maxPriorityFeePerGas |-> tip, maxFeePerGas |-> MaxOf(max, tip)]

\* variant: "already known" is treated as a reason to escalate
ClassifyKnownAsRetry(msg) ==
    IF "nonce too low" \in msg THEN "resolved"
    ELSE IF "already known" \in msg \/ "underpriced" \in msg
            \/ "tip too low" \in msg \/ "base fee" \in msg
         THEN "retry"
         ELSE "failed"

\* variant: a message without any marker is treated as a reason to escalate
ClassifyUnknownAsRetry(msg) ==
    IF "nonce too low" \in msg \/ "already known" \in msg THEN "resolved"
    ELSE "retry"

\* variant: the escalation markers are tested before the terminal ones
ClassifyEscalationFirst(msg) ==
    IF "underpriced" \in msg \/ "tip too low" \in msg \/ "base fee" \in msg
    THEN "retry"
    ELSE IF "nonce too low" \in msg \/ "already known" \in msg THEN "resolved"
         ELSE "failed"

\* the branches of the catch block, in the order the code tests them
Classify(msg) ==
    IF "nonce too low" \in msg \/ "already known" \in msg THEN "resolved"
    ELSE IF "underpriced" \in msg \/ "tip too low" \in msg \/ "base fee" \in msg
         THEN "retry"
         ELSE "failed"

CancelIdle ==
    /\ FROM = 0 /\ TO = 0 /\ latest = 0
    /\ TIP = 0 /\ MAX = 0 /\ BUMP = <<1, 1>>
    /\ n = 0 /\ i = 0 /\ cpc = "idle"
    /\ lastSent = NoSent /\ sentCount = 0 /\ finished = {}
    /\ outcome = "none" /\ receipt = "none"
    /\ lastMsg = {} /\ errorAt = "none" /\ tip0 = 0 /\ rejections = 0

\* main after the two getTransactionCount reads, at the head of its for loop
CancelInit ==
    /\ FROM \in Nonces /\ TO \in Nonces
    /\ latest \in 0..(MaxNonce + 1)
    /\ \E c \in Configs : TIP = c[1] /\ MAX = c[2] /\ BUMP = c[3]
    /\ n = FROM /\ i = 0 /\ cpc = "main"
    /\ lastSent = NoSent /\ sentCount = 0 /\ finished = {}
    /\ outcome = "none" /\ receipt = "none"
    /\ lastMsg = {} /\ errorAt = "none" /\ tip0 = 0 /\ rejections = 0

\* cancelNonce returns; main sleeps DELAY and goes to the next nonce
ReturnToMain(how) ==
    /\ outcome' = how
    /\ finished' = finished \cup {n}
    /\ n' = n + 1
    /\ cpc' = "main"

\* for (n...) : n <= TO and n < latest, the nonce is skipped
MainSkip ==
    /\ UNCHANGED <<miningVars, autoVars, pickVars>>
    /\ cpc = "main"
    /\ n <= TO
    /\ AlreadyConfirmed(n, latest)
    /\ n' = n + 1
    /\ UNCHANGED <<FROM, TO, latest, TIP, MAX, BUMP, i, cpc, lastSent,
                   sentCount, finished, outcome, receipt, lastMsg, errorAt,
                   tip0, rejections>>

\* variant: every call of cancelNonce starts again from the default fees
MainCancelFromDefaults ==
    /\ UNCHANGED <<miningVars, autoVars, pickVars>>
    /\ cpc = "main"
    /\ n <= TO
    /\ ~AlreadyConfirmed(n, latest)
    /\ i' = 1
    /\ TIP' = 30000000 /\ MAX' = 60000000
    /\ tip0' = TIP'
    /\ sentCount' = 0
    /\ lastMsg' = {}
    /\ errorAt' = "none"
    /\ outcome' = "none"
    /\ receipt' = "none"
    /\ cpc' = "send"
    /\ UNCHANGED <<FROM, TO, latest, BUMP, n, lastSent, finished, rejections>>

\* for (n...) : cancelNonce(n) is called and reaches its first attempt
MainCancel ==
    /\ UNCHANGED <<miningVars, autoVars, pickVars>>
    /\ cpc = "main"
    /\ n <= TO
    /\ ~AlreadyConfirmed(n, latest)
    /\ i' = 1
    /\ tip0' = TIP
    /\ sentCount' = 0
    /\ lastMsg' = {}
    /\ errorAt' = "none"
    /\ outcome' = "none"
    /\ receipt' = "none"
    /\ cpc' = "send"
    /\ UNCHANGED <<FROM, TO, latest, TIP, MAX, BUMP, n, lastSent, finished,
                   rejections>>

\* for (n...) : n > TO, main ends
MainDone ==
    /\ UNCHANGED <<miningVars, autoVars, pickVars>>
    /\ cpc = "main"
    /\ n > TO
    /\ cpc' = "exit"
    /\ UNCHANGED <<FROM, TO, latest, TIP, MAX, BUMP, n, i, lastSent,
                   sentCount, finished, outcome, receipt, lastMsg, errorAt,
                   tip0, rejections>>

\* wal.sendTransaction is called with the current fees and resolves with a
\* hash: the transaction was accepted
SendOk ==
    /\ UNCHANGED <<miningVars, autoVars, pickVars>>
    /\ cpc = "send"
    /\ lastSent' = CancelTx(n, TIP, MAX)
    /\ sentCount' = sentCount + 1
    /\ cpc' = "wait"
    /\ UNCHANGED <<FROM, TO, latest, TIP, MAX, BUMP, n, i, finished, outcome,
                   receipt, lastMsg, errorAt, tip0, rejections>>

\* catch (e): the message decides between return, bump-and-continue, return
Catch(msg) ==
    /\ UNCHANGED <<miningVars, autoVars, pickVars>>
    /\ lastMsg' = msg
    /\ errorAt' = cpc
    /\ CASE Classify(msg) = "resolved" ->
              /\ ReturnToMain("resolved")
              /\ UNCHANGED <<TIP, MAX, i, rejections>>
         [] Classify(msg) = "retry" ->
              /\ rejections < MaxRejections
              /\ rejections' = rejections + 1
              /\ TIP' = BumpTip(TIP, BUMP)
              /\ MAX' = BumpMax(MAX, TIP', BUMP)
              /\ i' = i + 1
              /\ IF AttemptsLeft(i')
                   THEN /\ cpc' = "send"
                        /\ UNCHANGED <<n, outcome, finished>>
                   ELSE ReturnToMain("abandoned")
         [] OTHER ->
              /\ ReturnToMain("failed")
              /\ UNCHANGED <<TIP, MAX, i, rejections>>
    /\ UNCHANGED <<FROM, TO, latest, BUMP, receipt, tip0>>

\* wal.sendTransaction is called with the current fees and rejects
SendFails(msg) ==
    /\ cpc = "send"
    /\ lastSent' = CancelTx(n, TIP, MAX)
    /\ sentCount' = sentCount + 1
    /\ Catch(msg)

\* variant: an error of the wait ends the nonce whatever its message
WaitFailsEndsTheNonce(msg) ==
    /\ UNCHANGED <<miningVars, autoVars, pickVars>>
    /\ cpc = "wait"
    /\ lastMsg' = msg
    /\ errorAt' = cpc
    /\ ReturnToMain("failed")
    /\ UNCHANGED <<FROM, TO, latest, TIP, MAX, BUMP, i, lastSent, sentCount,
                   receipt, tip0, rejections>>

\* pub.waitForTransactionReceipt rejects (an RPC error, or the timeout, whose
\* message contains none of the markers)
WaitFails(msg) ==
    /\ cpc = "wait"
    /\ UNCHANGED <<lastSent, sentCount>>
    /\ Catch(msg)

\* variant: a reverted receipt escalates the fees and tries the nonce again
ReceiptRetriesReverted(status) ==
    /\ UNCHANGED <<miningVars, autoVars, pickVars>>
    /\ cpc = "wait"
    /\ receipt' = status
    /\ IF status = "reverted" /\ i < 8
         THEN /\ TIP' = MulFixed6(TIP, BUMP)
              /\ MAX' = MulFixed6(MaxOf(MAX, TIP'), BUMP)
              /\ i' = i + 1
              /\ cpc' = "send"
              /\ UNCHANGED <<n, outcome, finished>>
         ELSE /\ ReturnToMain("receipt")
              /\ UNCHANGED <<TIP, MAX, i>>
    /\ UNCHANGED <<FROM, TO, latest, BUMP, lastSent, sentCount, lastMsg,
                   errorAt, tip0, rejections>>

\* the receipt arrives: its status is logged, cancelNonce returns
Receipt(status) ==
    /\ UNCHANGED <<miningVars, autoVars, pickVars>>
    /\ cpc = "wait"
    /\ receipt' = status
    /\ ReturnToMain("receipt")
    /\ UNCHANGED <<FROM, TO, latest, TIP, MAX, BUMP, i, lastSent, sentCount,
                   lastMsg, errorAt, tip0, rejections>>

CancelNext ==
    \/ MainSkip
    \/ MainCancel
    \/ MainDone
    \/ SendOk
    \/ \E msg \in Messages : SendFails(msg)
    \/ \E msg \in Messages : WaitFails(msg)
    \/ \E status \in {"success", "reverted"} : Receipt(status)

(***************************************************************************)
(* Auto controller: main of config.ts                                      *)
(*                                                                         *)
(* Thresholds and observations are JavaScript numbers in the source; here  *)
(* they are integers, and a relaxed threshold is the exact fraction        *)
(* <<numerator, denominator>> with a positive denominator.  Amounts are    *)
(* wei.  Absent stands for a setting that is not configured.               *)
(***************************************************************************)

\* envNumber / envInt: undefined when the variable is not set
Absent == -1

\* AUTO_SIZE_STEP_KB
AUTO_SIZE_STEP_KB == 25

\* what getBalance answers
Balances == {0, 3, 110}

\* what getGasPrice answers, in gwei
GasPrices == {10, 12}

NoEst == [kb |-> Absent]

\* the settings of the runs that are explored
Gates(bal, gwei, eff, cost) ==
    [MIN_BALANCE_ETH |-> bal, MAX_L1_GWEI |-> gwei,
     MIN_EFFICIENCY_PERCENT |-> eff, MAX_COST_PER_FCT_USD |-> cost]

Relax(after, step) ==
    [AUTO_RELAX_AFTER_CYCLES |-> after, AUTO_RELAX_STEP_PERCENT |-> step]

Size(dynamic, kb, minKb, maxKb) ==
    [AUTO_DYNAMIC_SIZE |-> dynamic, AUTO_SIZE_KB |-> kb,
     AUTO_MIN_SIZE_KB |-> minKb, AUTO_MAX_SIZE_KB |-> maxKb]

Spend(mode, cap, txs) ==
    [AUTO_SPEND_MODE |-> mode, AUTO_SPEND_CAP_ETH |-> cap, AUTO_TARGET_TXS |-> txs]

Run(loop, stop) == [AUTO_LOOP |-> loop, STOP_ON_TX_FAIL |-> stop]

Settings(run, gates, relax, size, spend) ==
    [f \in (DOMAIN run) \cup (DOMAIN gates) \cup (DOMAIN relax)
           \cup (DOMAIN size) \cup (DOMAIN spend) |->
        IF f \in DOMAIN run THEN run[f]
        ELSE IF f \in DOMAIN gates THEN gates[f]
        ELSE IF f \in DOMAIN relax THEN relax[f]
        ELSE IF f \in DOMAIN size THEN size[f]
        ELSE spend[f]]

AutoConfigs ==
    { Settings(Run(TRUE, TRUE), Gates(Absent, Absent, Absent, Absent),
               Relax(1, 10), Size(TRUE, 100, 25, 50), Spend("cap", 3, Absent)),
      Settings(Run(TRUE, FALSE), Gates(Absent, Absent, Absent, Absent),
               Relax(1, 10), Size(TRUE, 100, 50, 25), Spend("all", Absent, Absent)),
      Settings(Run(FALSE, TRUE), Gates(Absent, Absent, Absent, Absent),
               Relax(1, 10), Size(FALSE, 100, 25, 100), Spend("cap", Absent, Absent)),
      Settings(Run(TRUE, TRUE), Gates(4, Absent, Absent, Absent),
               Relax(1, 50), Size(FALSE, 100, 25, 100), Spend("all", Absent, Absent)),
      Settings(Run(TRUE, TRUE), Gates(Absent, 10, Absent, Absent),
               Relax(1, 10), Size(FALSE, 50, 25, 100), Spend("cap", Absent, 2)),
      Settings(Run(TRUE, FALSE), Gates(Absent, Absent, 90, Absent),
               Relax(1, 10), Size(TRUE, 100, 25, 50), Spend("cap", 2, Absent)),
      Settings(Run(TRUE, TRUE), Gates(Absent, Absent, Absent, 2),
               Relax(2, 50), Size(TRUE, 100, 25, 50), Spend("cap", 120, Absent)),
      Settings(Run(TRUE, TRUE), Gates(3, 10, 90, 2),
               Relax(1, 10), Size(FALSE, 100, 25, 100), Spend("all", Absent, Absent)),
      Settings(Run(FALSE, FALSE), Gates(3, 10, 90, 2),
               Relax(1, 10), Size(TRUE, 100, 25, 50), Spend("cap", 0, 1)),
      Settings(Run(TRUE, TRUE), Gates(Absent, 10, 0, 0),
               Relax(1, 50), Size(FALSE, 25, 25, 100), Spend("budget", 3, 1)),
      Settings(Run(TRUE, TRUE), Gates(Absent, 10, Absent, Absent),
               Relax(1, 10), Size(FALSE, 100, 25, 100), Spend("cap", 0, 0)) }

\* ---- relaxation -------------------------------------------------------

\* waitCycles >= AUTO_RELAX_AFTER_CYCLES
Relaxing(w, e) == w >= e.AUTO_RELAX_AFTER_CYCLES

\* variant: the steps are counted down from the trigger
relaxStepsCountedDown(w, e) == e.AUTO_RELAX_AFTER_CYCLES - w + 1

\* relaxSteps = waitCycles - AUTO_RELAX_AFTER_CYCLES + 1
relaxSteps(w, e) == w - e.AUTO_RELAX_AFTER_CYCLES + 1

\* variant: one step of relaxation however long the wait
relaxFactorOneStep(w, e) == <<100 + e.AUTO_RELAX_STEP_PERCENT, 100>>

\* relaxFactor = 1 + (relaxSteps * AUTO_RELAX_STEP_PERCENT) / 100
relaxFactor(w, e) == <<100 + relaxSteps(w, e) * e.AUTO_RELAX_STEP_PERCENT, 100>>

\* threshold * relaxFactor
Loosened(threshold, f) == <<threshold * f[1], f[2]>>

\* Math.max(0, threshold / relaxFactor)
Tightened(threshold, f) ==
    IF threshold * f[2] < 0 THEN <<0, 1>> ELSE <<threshold * f[2], f[1]>>

\* let effectiveMaxGwei = MAX_L1_GWEI; relaxed when waiting long enough
effectiveMaxGwei(w, e) ==
    IF Relaxing(w, e) THEN Loosened(e.MAX_L1_GWEI, relaxFactor(w, e))
    ELSE <<e.MAX_L1_GWEI, 1>>

\* let effectiveMaxCost = MAX_COST_PER_FCT_USD ?? undefined; relaxed likewise
effectiveMaxCost(w, e) ==
    IF e.MAX_COST_PER_FCT_USD = Absent THEN <<Absent, 1>>
    ELSE IF Relaxing(w, e) THEN Loosened(e.MAX_COST_PER_FCT_USD, relaxFactor(w, e))
    ELSE <<e.MAX_COST_PER_FCT_USD, 1>>

\* let effectiveMinEff = MIN_EFFICIENCY_PERCENT ?? undefined; relaxed likewise
effectiveMinEff(w, e) ==
    IF e.MIN_EFFICIENCY_PERCENT = Absent THEN <<Absent, 1>>
    ELSE IF Relaxing(w, e) THEN Tightened(e.MIN_EFFICIENCY_PERCENT, relaxFactor(w, e))
    ELSE <<e.MIN_EFFICIENCY_PERCENT, 1>>

\* x > q and x < q for a number x and a fraction q
Above(x, q) == x * q[2] > q[1]
Below(x, q) == x * q[2] < q[1]

NoThreshold(q) == q[1] = Absent

\* ---- estimates --------------------------------------------------------

\* customKb = Math.min(Math.max(Math.floor(kb), 1), 100)
customKb(kb) == IF kb < 1 THEN 1 ELSE IF kb > 100 THEN 100 ELSE kb

\* what getEstimatesForSizeKb can answer for one size: the burn, the cost
\* per FCT and the efficiency follow the base fee and the mint rate
SizeEstimates(kb) ==
    [kb : {kb}, sizeBytes : {customKb(kb) * 1024}, estimatedEthBurn : {2, 100},
     costPerFctUsd : {2, 3}, efficiencyPercent : {80, 95}]

\* for (let kb = minKb; kb <= maxKb; kb += AUTO_SIZE_STEP_KB) candidates.push(kb)
RECURSIVE candidates(_, _)
candidates(kb, maxKb) ==
    IF kb <= maxKb THEN <<kb>> \o candidates(kb + AUTO_SIZE_STEP_KB, maxKb) ELSE <<>>

\* variant: a candidate that costs as much as the best one replaces it
KeepLatestOnTies(kept, e, maxCost, minEff) ==
    IF kept = NoEst \/ e.costPerFctUsd <= kept.costPerFctUsd THEN e ELSE kept

\* one turn of the loop of pickBestSizeAndEstimates
KeepBest(kept, e, maxCost, minEff) ==
    LET meetsCost == NoThreshold(maxCost) \/ ~Above(e.costPerFctUsd, maxCost)
        meetsEff == NoThreshold(minEff) \/ ~Below(e.efficiencyPercent, minEff)
    IN  IF meetsCost /\ meetsEff
        THEN IF kept = NoEst \/ e.costPerFctUsd < kept.costPerFctUsd THEN e ELSE kept
        ELSE IF kept = NoEst THEN e
        ELSE IF e.costPerFctUsd < kept.costPerFctUsd THEN e ELSE kept

RECURSIVE pickFrom(_, _, _, _, _)
pickFrom(cands, answers, kept, maxCost, minEff) ==
    IF cands = <<>> THEN kept
    ELSE pickFrom(Tail(cands), answers,
                  KeepBest(kept, answers[Head(cands)], maxCost, minEff),
                  maxCost, minEff)

\* pickBestSizeAndEstimates: the best candidate, or NoEst for null
pickBestSizeAndEstimates(e, answers, maxCost, minEff) ==
    pickFrom(candidates(e.AUTO_MIN_SIZE_KB, e.AUTO_MAX_SIZE_KB), answers,
             NoEst, maxCost, minEff)

\* the sizes main asks estimates for
Asked(e) ==
    IF e.AUTO_DYNAMIC_SIZE
    THEN LET c == candidates(e.AUTO_MIN_SIZE_KB, e.AUTO_MAX_SIZE_KB)
         IN  {c[j] : j \in DOMAIN c}
    ELSE {e.AUTO_SIZE_KB}

\* the answers the RPC can give to one cycle
Answers(e) == {a \in [Asked(e) -> UNION {SizeEstimates(kb) : kb \in Asked(e)}] :
                 \A kb \in Asked(e) : a[kb].kb = kb}

\* est of main: the pick when AUTO_DYNAMIC_SIZE, else the estimate of AUTO_SIZE_KB
Estimated(e, answers, w) ==
    IF e.AUTO_DYNAMIC_SIZE
    THEN pickBestSizeAndEstimates(e, answers, effectiveMaxCost(w, e), effectiveMinEff(w, e))
    ELSE answers[e.AUTO_SIZE_KB]

\* ---- spend cap --------------------------------------------------------

\* const minCap = (est.estimatedEthBurn * 11n) / 10n
minCap(burn) == (burn * 11) \div 10

\* startMiningSession, choice "1": const buffer = balance / 100n;
\* spendCap = balance > buffer ? balance - buffer : balance
SpendAllChoice(b) ==
    LET buffer == b \div 100 IN IF b > buffer THEN b - buffer ELSE b

\* variant: nothing is kept back
AllButNothing(b) == b

\* const buffer = balance / 100n; balance > buffer ? balance - buffer : balance
AllButBuffer(b) == IF b > b \div 100 THEN b - b \div 100 ELSE b

\* !capEth || capEth <= 0, with capEth = AUTO_SPEND_CAP_ETH ?? 0
NoCap(e) == e.AUTO_SPEND_CAP_ETH = Absent \/ e.AUTO_SPEND_CAP_ETH <= 0

\* AUTO_TARGET_TXS && AUTO_TARGET_TXS > 0
HasTarget(e) == e.AUTO_TARGET_TXS # Absent /\ e.AUTO_TARGET_TXS > 0

\* variant: the cap derived from the target covers one transaction only
RequestedCapForOneTx(e, burn) ==
    IF NoCap(e) THEN minCap(burn) ELSE e.AUTO_SPEND_CAP_ETH

\* the cap before the checks against the balance
RequestedCap(e, burn) ==
    IF NoCap(e) THEN minCap(burn) * e.AUTO_TARGET_TXS ELSE e.AUTO_SPEND_CAP_ETH

\* if (spendCap < minCap) { spendCap = minCap; if (spendCap > balance) ... }
AdjustedCap(cap, b, burn) ==
    IF cap < minCap(burn)
    THEN IF minCap(burn) > b THEN AllButBuffer(b) ELSE minCap(burn)
    ELSE cap

\* variant: a cap is always taken to be resolvable
ConfigErrorNever(e) == FALSE

\* the outcome of "Determine spend cap"
ConfigError(e) == e.AUTO_SPEND_MODE # "all" /\ NoCap(e) /\ ~HasTarget(e)

\* variant: the cap is never held against the balance
CapExceedsNever(e, b, burn) == FALSE

\* if (spendCap > balance) { "SPEND_CAP_ETH exceeds wallet balance"; return }
CapExceeds(e, b, burn) ==
    /\ e.AUTO_SPEND_MODE # "all" /\ ~ConfigError(e)
    /\ RequestedCap(e, burn) > b

ResolvedCap(e, b, burn) ==
    IF e.AUTO_SPEND_MODE = "all" THEN AllButBuffer(b)
    ELSE AdjustedCap(RequestedCap(e, burn), b, burn)

\* ---- main -------------------------------------------------------------

NoEffective == [maxGwei |-> <<Absent, 1>>, maxCost |-> <<Absent, 1>>,
                minEff |-> <<Absent, 1>>]

\* the record kept of a session when main comes back from miningLoop
Returned(waited, sent, failed) ==
    [waited |-> waited, submitted |-> sent, failures |-> failed]

NoReturn == Returned(Absent, 0, 0)

AutoIdle ==
    /\ env = Settings(Run(FALSE, TRUE), Gates(Absent, Absent, Absent, Absent),
                      Relax(5, 10), Size(TRUE, 100, 25, 100), Spend("cap", Absent, Absent))
    /\ waitCycles = 0 /\ apc = "idle"
    /\ balance = Absent /\ currentGwei = Absent
    /\ effective = NoEffective /\ est = NoEst
    /\ cycles = 0 /\ gateReason = "none" /\ reached = "none"
    /\ gatedRun = 0 /\ sessions = 0 /\ returned = NoReturn

\* const loopForever = AUTO_LOOP; let waitCycles = 0; while (true)
AutoInit ==
    /\ env \in AutoConfigs
    /\ waitCycles = 0 /\ apc = "balance"
    /\ balance = Absent /\ currentGwei = Absent
    /\ effective = NoEffective /\ est = NoEst
    /\ cycles = 0 /\ gateReason = "none" /\ reached = "none"
    /\ gatedRun = 0 /\ sessions = 0 /\ returned = NoReturn

\* variant: a gated cycle goes on with the estimates
GatedButGoesOn(reason) ==
    /\ gateReason' = reason
    /\ gatedRun' = gatedRun + 1
    /\ apc' = "pick"
    /\ UNCHANGED <<waitCycles, sessions, returned>>

\* variant: a gated cycle waits for the next one even in a single run
GatedAlwaysWaits(reason) ==
    /\ gateReason' = reason
    /\ gatedRun' = gatedRun + 1
    /\ apc' = "gated"
    /\ UNCHANGED <<waitCycles, sessions, returned>>

\* if (!loopForever) return; await sleep(CHECK_INTERVAL_SEC) ...
Gated(reason) ==
    /\ gateReason' = reason
    /\ gatedRun' = gatedRun + 1
    /\ apc' = IF env.AUTO_LOOP THEN "gated" ELSE "exit"
    /\ UNCHANGED <<waitCycles, sessions, returned>>

\* ... waitCycles++; continue
GateWaitOver ==
    /\ apc = "gated"
    /\ waitCycles' = waitCycles + 1
    /\ apc' = "balance"
    /\ UNCHANGED <<env, balance, currentGwei, effective, est, cycles,
                   gateReason, reached, gatedRun, sessions, returned>>
    /\ UNCHANGED <<miningVars, cancelVars, pickVars>>

\* a turn of while (true): const balance = await getBalance(...)
CycleBegins(b) ==
    /\ apc = "balance"
    /\ cycles < MaxCycles
    /\ cycles' = cycles + 1
    /\ balance' = b
    /\ currentGwei' = Absent /\ effective' = NoEffective /\ est' = NoEst
    /\ reached' = "balance"

\* MIN_BALANCE_ETH != null && balanceEth < MIN_BALANCE_ETH
BalanceBelowFloor(b, e) == e.MIN_BALANCE_ETH # Absent /\ b < e.MIN_BALANCE_ETH

BalanceGate ==
    /\ \E b \in Balances :
        /\ BalanceBelowFloor(b, env)
        /\ CycleBegins(b)
    /\ Gated("balance")
    /\ UNCHANGED env
    /\ UNCHANGED <<miningVars, cancelVars, pickVars>>

BalancePass ==
    /\ \E b \in Balances :
        /\ ~BalanceBelowFloor(b, env)
        /\ CycleBegins(b)
    /\ apc' = "gas"
    /\ gateReason' = "none"
    /\ UNCHANGED <<env, waitCycles, gatedRun, sessions, returned>>
    /\ UNCHANGED <<miningVars, cancelVars, pickVars>>

\* if (MAX_L1_GWEI != null) { ... if (currentGwei > effectiveMaxGwei) ... }
GasGate ==
    /\ apc = "gas"
    /\ env.MAX_L1_GWEI # Absent
    /\ \E g \in GasPrices :
        /\ Above(g, effectiveMaxGwei(waitCycles, env))
        /\ currentGwei' = g
    /\ effective' = [effective EXCEPT !.maxGwei = effectiveMaxGwei(waitCycles, env)]
    /\ reached' = "gas"
    /\ Gated("gas")
    /\ UNCHANGED <<env, balance, est, cycles>>
    /\ UNCHANGED <<miningVars, cancelVars, pickVars>>

GasPass ==
    /\ apc = "gas"
    /\ \/ /\ env.MAX_L1_GWEI = Absent
          /\ UNCHANGED <<currentGwei, effective>>
       \/ /\ env.MAX_L1_GWEI # Absent
          /\ \E g \in GasPrices :
                /\ ~Above(g, effectiveMaxGwei(waitCycles, env))
                /\ currentGwei' = g
          /\ effective' = [effective EXCEPT
                              !.maxGwei = effectiveMaxGwei(waitCycles, env)]
    /\ reached' = "gas"
    /\ apc' = "pick"
    /\ UNCHANGED <<env, waitCycles, balance, est, cycles, gateReason, gatedRun, sessions, returned>>
    /\ UNCHANGED <<miningVars, cancelVars, pickVars>>

\* the thresholds the estimates are held against
EffectiveForEstimates ==
    [effective EXCEPT !.maxCost = effectiveMaxCost(waitCycles, env),
                      !.minEff = effectiveMinEff(waitCycles, env)]

\* getEstimatesForSizeKb throws: main is left by the exception
PickThrows ==
    /\ apc = "pick"
    /\ Asked(env) # {}
    /\ effective' = EffectiveForEstimates
    /\ reached' = "estimate"
    /\ apc' = "threw"
    /\ UNCHANGED <<env, waitCycles, balance, currentGwei, est, cycles,
                   gateReason, gatedRun, sessions, returned>>
    /\ UNCHANGED <<miningVars, cancelVars, pickVars>>

\* effectiveMinEff != null && est.efficiencyPercent < effectiveMinEff
EfficiencyTooLow(e, w, cfg) ==
    /\ ~NoThreshold(effectiveMinEff(w, cfg))
    /\ Below(e.efficiencyPercent, effectiveMinEff(w, cfg))

\* variant: the cost is held against a ceiling that is not configured
CostTooHighUnconfigured(e, w, cfg) ==
    Above(e.costPerFctUsd, effectiveMaxCost(w, cfg))

\* effectiveMaxCost != null && est.costPerFctUsd > effectiveMaxCost
CostTooHigh(e, w, cfg) ==
    /\ ~NoThreshold(effectiveMaxCost(w, cfg))
    /\ Above(e.costPerFctUsd, effectiveMaxCost(w, cfg))

\* the estimates are in: est and the effective thresholds of this cycle
Estimate(e) ==
    /\ apc = "pick"
    /\ \E a \in Answers(env) : e = Estimated(env, a, waitCycles)
    /\ est' = e
    /\ effective' = EffectiveForEstimates
    /\ UNCHANGED <<env, balance, currentGwei, cycles>>

Choices == UNION {SizeEstimates(kb) : kb \in Asked(env)} \cup {NoEst}

\* if (!pick) { "Unable to compute estimates" ... }
NoEstimate ==
    /\ Estimate(NoEst)
    /\ reached' = "estimate"
    /\ Gated("estimate")
    /\ UNCHANGED <<miningVars, cancelVars, pickVars>>

EfficiencyGate ==
    /\ \E e \in Choices \ {NoEst} :
        /\ Estimate(e)
        /\ EfficiencyTooLow(e, waitCycles, env)
    /\ reached' = "efficiency"
    /\ Gated("efficiency")
    /\ UNCHANGED <<miningVars, cancelVars, pickVars>>

CostGate ==
    /\ \E e \in Choices \ {NoEst} :
        /\ Estimate(e)
        /\ ~EfficiencyTooLow(e, waitCycles, env)
        /\ CostTooHigh(e, waitCycles, env)
    /\ reached' = "cost"
    /\ Gated("cost")
    /\ UNCHANGED <<miningVars, cancelVars, pickVars>>

\* no gate holds the estimate back
GatesPassed(e) ==
    /\ Estimate(e)
    /\ ~EfficiencyTooLow(e, waitCycles, env)
    /\ ~CostTooHigh(e, waitCycles, env)
    /\ reached' = "cap"
    /\ gateReason' = "none"

\* "SPEND_MODE=cap requires SPEND_CAP_ETH or AUTO_TARGET_TXS."; return
CapConfigError ==
    /\ \E e \in Choices \ {NoEst} :
        /\ GatesPassed(e)
        /\ ConfigError(env)
    /\ apc' = "exit"
    /\ UNCHANGED <<waitCycles, gatedRun, sessions, returned>>
    /\ UNCHANGED <<miningVars, cancelVars, pickVars>>

\* "SPEND_CAP_ETH exceeds wallet balance"; return
CapExceedsBalance ==
    /\ \E e \in Choices \ {NoEst} :
        /\ GatesPassed(e)
        /\ CapExceeds(env, balance, e.estimatedEthBurn)
    /\ apc' = "exit"
    /\ UNCHANGED <<waitCycles, gatedRun, sessions, returned>>
    /\ UNCHANGED <<miningVars, cancelVars, pickVars>>

\* await miningLoop(spendCap, ethPriceUsd, est.sizeBytes): the session is entered
SessionStart ==
    /\ \E e \in Choices \ {NoEst} :
        /\ GatesPassed(e)
        /\ ~ConfigError(env)
        /\ ~CapExceeds(env, balance, e.estimatedEthBurn)
        /\ spendCap' = ResolvedCap(env, balance, e.estimatedEthBurn)
    /\ STOP_ON_TX_FAIL' = env.STOP_ON_TX_FAIL
    /\ totalSpent' = 0 /\ totalFctMinted' = 0 /\ transactionCount' = 0
    /\ estimatedCost' = 0
    /\ mpc' = "loop"
    /\ currentTx' = NoTx
    /\ stats' = NewStats(spendCap')
    /\ dashRunning' = TRUE
    /\ completed' = <<>> /\ submitted' = 0 /\ estIter' = 0 /\ failures' = 0
    /\ inFlight' = 0 /\ reports' = <<>>
    /\ apc' = "session"
    /\ sessions' = sessions + 1
    /\ gatedRun' = 0
    /\ UNCHANGED <<waitCycles, returned>>
    /\ UNCHANGED <<cancelVars, pickVars>>

\* miningLoop is over: its variables are gone
SessionLeft ==
    /\ spendCap' = 0 /\ STOP_ON_TX_FAIL' = TRUE
    /\ totalSpent' = 0 /\ totalFctMinted' = 0 /\ transactionCount' = 0
    /\ estimatedCost' = 0 /\ mpc' = "idle"
    /\ currentTx' = NoTx /\ stats' = NewStats(0) /\ dashRunning' = FALSE
    /\ completed' = <<>> /\ submitted' = 0 /\ estIter' = 0 /\ failures' = 0
    /\ inFlight' = 0 /\ reports' = <<>>

\* variant: only a session that completed a transaction resets the counter
SessionReturnResetsOnSuccess ==
    /\ apc = "session"
    /\ mpc = "summary"
    /\ SessionLeft
    /\ waitCycles' = IF Len(completed) > 0 THEN 0 ELSE waitCycles
    /\ returned' = Returned(waitCycles, submitted, failures)
    /\ apc' = IF env.AUTO_LOOP THEN "cooldown" ELSE "exit"
    /\ UNCHANGED <<env, balance, currentGwei, effective, est, cycles,
                   gateReason, reached, gatedRun, sessions>>
    /\ UNCHANGED <<cancelVars, pickVars>>

\* variant: the counter of waiting cycles survives a session
SessionReturnKeepsCount ==
    /\ apc = "session"
    /\ mpc = "summary"
    /\ SessionLeft
    /\ UNCHANGED waitCycles
    /\ returned' = Returned(waitCycles, submitted, failures)
    /\ apc' = IF env.AUTO_LOOP THEN "cooldown" ELSE "exit"
    /\ UNCHANGED <<env, balance, currentGwei, effective, est, cycles,
                   gateReason, reached, gatedRun, sessions>>
    /\ UNCHANGED <<cancelVars, pickVars>>

\* waitCycles = 0; if (!loopForever) return
SessionReturn ==
    /\ apc = "session"
    /\ mpc = "summary"
    /\ SessionLeft
    /\ waitCycles' = 0
    /\ returned' = Returned(waitCycles, submitted, failures)
    /\ apc' = IF env.AUTO_LOOP THEN "cooldown" ELSE "exit"
    /\ UNCHANGED <<env, balance, currentGwei, effective, est, cycles,
                   gateReason, reached, gatedRun, sessions>>
    /\ UNCHANGED <<cancelVars, pickVars>>

\* miningLoop throws: main is left by the exception
SessionThrows ==
    /\ apc = "session"
    /\ mpc = "threw"
    /\ apc' = "threw"
    /\ UNCHANGED <<env, waitCycles, balance, currentGwei, effective, est, cycles,
                   gateReason, reached, gatedRun, sessions, returned>>
    /\ UNCHANGED <<miningVars, cancelVars, pickVars>>

\* the cooldown after a session is over: the next turn of while (true)
CooldownOver ==
    /\ apc = "cooldown"
    /\ apc' = "balance"
    /\ returned' = NoReturn
    /\ UNCHANGED <<env, waitCycles, balance, currentGwei, effective, est, cycles,
                   gateReason, reached, gatedRun, sessions>>
    /\ UNCHANGED <<miningVars, cancelVars, pickVars>>

AutoNext ==
    \/ BalanceGate \/ BalancePass \/ GasGate \/ GasPass
    \/ PickThrows \/ NoEstimate \/ EfficiencyGate \/ CostGate
    \/ CapConfigError \/ CapExceedsBalance
    \/ SessionStart \/ SessionReturn \/ SessionThrows
    \/ GateWaitOver \/ CooldownOver
    \/ LoopExit \/ EstimateThrows \/ EstimateOverBudget \/ EstimateOk
    \/ GasPriceOk \/ GasPriceThrows \/ SubmitOk
    \/ SubmitFails \/ ConfirmFails \/ ConfirmOk

(***************************************************************************)
(* pickBestSizeAndEstimates, one candidate at a time                       *)
(*                                                                         *)
(* The loop awaits getEstimatesForSizeKb for each candidate; the answers   *)
(* are drawn for every candidate from RankedEstimates.                     *)
(***************************************************************************)

\* what getEstimatesForSizeKb can answer for one size to the ranking
RankedEstimates(kb) ==
    [kb : {kb}, sizeBytes : {customKb(kb) * 1024}, estimatedEthBurn : {100},
     costPerFctUsd : {1, 2, 3}, efficiencyPercent : {85, 92, 96}]

\* the calls that are explored: minKb, maxKb and the two thresholds of opts
PickOpts ==
    [minKb : {25, 50}, maxKb : {25, 100},
     maxCostPerFctUsd : {<<Absent, 1>>, <<2, 1>>},
     minEfficiencyPercent : {<<Absent, 1>>, <<90, 1>>}]

PickIdle ==
    /\ opts = [minKb |-> 25, maxKb |-> 100, maxCostPerFctUsd |-> <<Absent, 1>>,
               minEfficiencyPercent |-> <<Absent, 1>>]
    /\ ppc = "idle" /\ pending = <<>> /\ best = NoEst /\ evaluated = <<>>

\* the candidates are listed; let best = null
PickInit ==
    /\ opts \in PickOpts
    /\ ppc = "loop"
    /\ pending = candidates(opts.minKb, opts.maxKb)
    /\ best = NoEst
    /\ evaluated = <<>>

\* for (const kb of candidates) { const est = await getEstimatesForSizeKb(kb) ... }
PickEvaluate ==
    /\ ppc = "loop"
    /\ pending # <<>>
    /\ \E e \in RankedEstimates(Head(pending)) :
        /\ best' = KeepBest(best, e, opts.maxCostPerFctUsd, opts.minEfficiencyPercent)
        /\ evaluated' = Append(evaluated, e)
    /\ pending' = Tail(pending)
    /\ UNCHANGED <<opts, ppc>>
    /\ UNCHANGED <<miningVars, cancelVars, autoVars>>

\* getEstimatesForSizeKb rejects: the error leaves pickBestSizeAndEstimates
PickEstimateThrows ==
    /\ ppc = "loop"
    /\ pending # <<>>
    /\ ppc' = "threw"
    /\ UNCHANGED <<opts, pending, best, evaluated>>
    /\ UNCHANGED <<miningVars, cancelVars, autoVars>>

\* return best
PickReturns ==
    /\ ppc = "loop"
    /\ pending = <<>>
    /\ ppc' = "returned"
    /\ UNCHANGED <<opts, pending, best, evaluated>>
    /\ UNCHANGED <<miningVars, cancelVars, autoVars>>

PickNext ==
    \/ PickEvaluate
    \/ PickEstimateThrows
    \/ PickReturns

(***************************************************************************)
(* Specifications                                                          *)
(***************************************************************************)
\* one mining session
MiningStart == MiningInit /\ CancelIdle /\ AutoIdle /\ PickIdle
MiningSpec == MiningStart /\ [][MiningNext]_vars

\* one sweep of the canceller
CancelStart == CancelInit /\ MiningIdle /\ AutoIdle /\ PickIdle
CancelSpec == CancelStart /\ [][CancelNext]_vars

\* the auto controller, with the sessions it runs
AutoStart == AutoInit /\ MiningIdle /\ CancelIdle /\ PickIdle
AutoSpec == AutoStart /\ [][AutoNext]_vars

\* pickBestSizeAndEstimates called on its own
PickStart == PickInit /\ MiningIdle /\ CancelIdle /\ AutoIdle
PickSpec == PickStart /\ [][PickNext]_vars

\* one session run by the loop of config.ts and by the legacy loop
BothStart == MiningInit /\ CancelIdle /\ AutoIdle /\ PickIdle
BothSpec == BothStart /\ [][BothNext]_vars

(***************************************************************************)
(* Properties of the mining session (MiningSpec)                           *)
(***************************************************************************)
RECURSIVE SumEth(_)
SumEth(results) ==
    IF results = <<>> THEN 0
    ELSE results[1].ethSpent + SumEth(Tail(results))

RECURSIVE SumFct(_)
SumFct(results) ==
    IF results = <<>> THEN 0
    ELSE results[1].fctMinted + SumFct(Tail(results))

\* a transaction is broadcast in this step
Submits == submitted' = submitted + 1
\* a transaction ends as failed in this step
Fails == failures' = failures + 1
\* a new estimate is computed and checked against the budget in this step
Estimates == estIter' = estIter + 1

\* C1: totalSpent never exceeds spendCap, whatever the cost charged for a
\* completed transaction is relative to the estimate that was checked.
C1_BudgetNeverExceeded == totalSpent <= spendCap

\* C2: a transaction is submitted only in an iteration whose own estimate
\* satisfied totalSpent + estimatedCost <= spendCap, and that still holds when
\* the transaction is submitted; an estimate that fails the check ends the
\* loop, and nothing is submitted after the loop has ended.
C2_SubmitOnlyWithinBudget ==
    /\ [][Submits => /\ estIter = transactionCount
                     /\ totalSpent + estimatedCost <= spendCap]_vars
    /\ [][(Estimates /\ totalSpent + estimatedCost' > spendCap)
            => (mpc' = "summary" /\ submitted' = submitted)]_vars
    /\ [][(mpc \in {"summary", "threw"}) => (submitted' = submitted)]_vars

\* a second transaction was submitted after a first one was paid for, and a
\* session ended on an estimate that did not fit after one submission
C2_Witness ==
    \/ /\ mpc = "confirming" /\ submitted = 2 /\ totalSpent > 0
    \/ /\ mpc = "summary" /\ submitted = 1 /\ transactionCount = 2
       /\ estIter = 2 /\ totalSpent + estimatedCost > spendCap

\* C3: a transaction that fails on submission or while waiting for its
\* confirmation stops the loop when STOP_ON_TX_FAIL is true and lets it go on
\* with the next iteration when the flag is false.
C3_FailurePolicy ==
    [][(Fails /\ mpc \in {"submitting", "confirming"})
         => IF STOP_ON_TX_FAIL THEN mpc' = "summary" ELSE mpc' = "loop"]_vars

\* C4: totalSpent is the sum of ethSpent and totalFctMinted the sum of
\* fctMinted over the completed transactions, each counted once; a failed
\* transaction changes neither total.
C4_ExactAccounting ==
    /\ [](totalSpent = SumEth(completed) /\ totalFctMinted = SumFct(completed))
    /\ [][Fails => (totalSpent' = totalSpent /\ totalFctMinted' = totalFctMinted
                    /\ completed' = completed)]_vars

\* two transactions completed with a cost, then a third one failed
C4_Witness ==
    /\ Len(completed) = 2 /\ failures = 1
    /\ completed[1].ethSpent > 0 /\ completed[2].ethSpent > 0
    /\ totalFctMinted > 0

\* the session is over: finally has run
Ended == mpc \in {"summary", "threw"}

\* C12: the transactions of a session are serialized: a transaction is
\* submitted only when every earlier one is completed or failed, and at most
\* one transaction is in flight.
C12_StrictlySerialized ==
    /\ [](inFlight \in {0, 1})
    /\ [][Submits => (inFlight = 0 /\ currentTx.status = "submitting")]_vars
    /\ [](inFlight = 1 => currentTx.status = "confirming")

\* a second transaction is in flight after the first one completed
C12_Witness == submitted = 2 /\ inFlight = 1 /\ Len(completed) = 1

\* C13: a submission error, a confirmation error or a receipt timeout is
\* recorded as the failed state of the transaction and does not leave
\* miningLoop as an error; whenever the loop is left the dashboard is stopped
\* and the summary is shown.
C13_FailuresAreContained ==
    /\ [][(Fails /\ mpc \in {"submitting", "confirming"})
            => (currentTx'.status = "failed" /\ mpc' = "summary")]_vars
    /\ [][(~Ended /\ Ended') => ~dashRunning']_vars
    /\ [](Ended => ~dashRunning)
    /\ [](~Ended => dashRunning)

\* a broadcast transaction failed while it was confirming, the session ended
C13_Witness ==
    /\ mpc = "summary" /\ submitted = 1 /\ failures = 1 /\ inFlight = 0
    /\ currentTx.status = "failed" /\ ~dashRunning

\* C14: transactionCount, totalSpent and totalFctMinted never decrease and
\* change only in a step that completes a transaction; the count with which
\* the session ends is the number of transactions submitted.
C14_TotalsFollowCompletions ==
    /\ [][/\ transactionCount' >= transactionCount
          /\ totalSpent' >= totalSpent
          /\ totalFctMinted' >= totalFctMinted]_vars
    /\ [][(transactionCount' # transactionCount \/ totalSpent' # totalSpent
             \/ totalFctMinted' # totalFctMinted)
            => Len(completed') = Len(completed) + 1]_vars
    /\ [](Ended => transactionCount = submitted)

(***************************************************************************)
(* Properties of the canceller (CancelSpec)                                *)
(***************************************************************************)
\* cancelNonce hands a transaction to wal.sendTransaction in this step
Sends == sentCount' = sentCount + 1
\* a receipt arrives in this step
Receives == receipt = "none" /\ receipt' # "none"
\* cancelNonce catches an error in this step
Catches == cpc \in {"send", "wait"} /\ errorAt' = cpc /\ ~Receives
             /\ ~(cpc = "send" /\ cpc' = "wait")

\* the four outcomes of an error message: the two terminal markers come first
Escalation(msg) ==
    /\ msg \cap {"underpriced", "tip too low", "base fee"} # {}
    /\ msg \cap {"nonce too low", "already known"} = {}

\* C5: a nonce is submitted again only after an underpriced / tip too low /
\* base fee error; after any other error cancelNonce is over for the nonce
\* and nothing is ever submitted for a nonce whose call is over.
C5_RetryOnlyAfterUnderpriced ==
    /\ [][Sends => /\ lastSent'.nonce = n
                   /\ n \notin finished
                   /\ (i > 1 => Escalation(lastMsg))]_vars
    /\ [][(Catches /\ ~Escalation(lastMsg'))
            => (n \in finished' /\ cpc' = "main" /\ n' = n + 1)]_vars

\* a nonce was submitted twice, the second time after an underpriced error,
\* and then ended on a terminal classification
C5_Witness ==
    /\ cpc = "main" /\ sentCount = 2 /\ i = 2
    /\ outcome = "resolved" /\ "already known" \in lastMsg

\* C6: cancelNonce submits at most 8 transactions for a nonce, each a
\* zero-value transfer to the own account at that nonce; an escalation error
\* on the 8th attempt abandons the nonce and main goes on with the next one.
C6_AtMostEightAttempts ==
    /\ [](sentCount <= 8)
    /\ [][Sends => /\ lastSent'.nonce = n
                   /\ lastSent'.value = 0
                   /\ lastSent'.to = "account"]_vars
    /\ [][(Catches /\ i = 8 /\ Escalation(lastMsg'))
            => (outcome' = "abandoned" /\ cpc' = "main" /\ n' = n + 1)]_vars

\* eight transactions were submitted for a nonce and the nonce was abandoned
C6_Witness == cpc = "main" /\ outcome = "abandoned" /\ sentCount = 8

\* C7: within one nonce every retry is submitted with a strictly higher
\* priority fee and a strictly higher max fee than the attempt before it.
C7_StrictlyHigherFees ==
    [][(Sends /\ sentCount >= 1)
         => /\ lastSent'.maxPriorityFeePerGas > lastSent.maxPriorityFeePerGas
            /\ lastSent'.maxFeePerGas > lastSent.maxFeePerGas]_vars

\* y is x * b rounded to the nearest integer, a tie rounded up
IsNearest(y, x, b) ==
    LET rho == y - (x \div b[2]) * b[1]
        rem == 2 * (x % b[2]) * b[1]
    IN 2 * b[2] * rho - b[2] <= rem /\ rem < 2 * b[2] * rho + b[2]

NearestOf(x, b) ==
    CHOOSE y \in ((x \div b[2]) * b[1])..((x \div b[2]) * b[1] + b[1]) :
        IsNearest(y, x, b)

\* t * b^k with a rounding to the micro-gwei after every multiplication
RECURSIVE RoundedPower(_, _, _)
RoundedPower(t, b, k) ==
    IF k = 0 THEN t ELSE NearestOf(RoundedPower(t, b, k - 1), b)

\* t * b^k when every one of the k products is a whole number of micro-gwei
\* (b in lowest terms: then and only then t * b^k is one), otherwise -1
RECURSIVE ExactPower(_, _, _)
ExactPower(t, b, k) ==
    IF k = 0 THEN t
    ELSE LET p == ExactPower(t, b, k - 1)
         IN IF p = -1 \/ ((p % b[2]) * b[1]) % b[2] # 0 THEN -1
            ELSE (p \div b[2]) * b[1] + ((p % b[2]) * b[1]) \div b[2]

\* C8 as stated: a transaction accepted after k underpriced rejections of its
\* nonce carries the priority fee initialTip * multiplier^k.
C8_ExactPowerOfMultiplier ==
    cpc = "wait" =>
        lastSent.maxPriorityFeePerGas = ExactPower(tip0, BUMP, i - 1)

\* C8 amended: every escalation sets TIP to TIP * BUMP and MAX to
\* max(MAX, new TIP) * BUMP, each rounded to 6 decimals of a gwei; a
\* transaction accepted after k rejections of its nonce carries the initial
\* tip multiplied and rounded k times, which is initialTip * multiplier^k
\* whenever no product needs rounding (30 gwei, 1.25, k = 2: 46.875 gwei).
C8_RoundedPowerOfMultiplier ==
    /\ [](cpc = "wait" =>
            /\ lastSent.maxPriorityFeePerGas = RoundedPower(tip0, BUMP, i - 1)
            /\ (ExactPower(tip0, BUMP, i - 1) # -1 =>
                  lastSent.maxPriorityFeePerGas = ExactPower(tip0, BUMP, i - 1))
            /\ ((tip0 = 30000000 /\ BUMP = <<5, 4>> /\ i = 3) =>
                  lastSent.maxPriorityFeePerGas = 46875000))
    /\ [][rejections' = rejections + 1 =>
            /\ IsNearest(TIP', TIP, BUMP)
            /\ IsNearest(MAX', MaxOf(MAX, TIP'), BUMP)]_vars

\* the scenario: 30 gwei, multiplier 1.25, accepted on the third attempt
C8_Witness ==
    /\ cpc = "wait" /\ i = 3 /\ tip0 = 30000000 /\ BUMP = <<5, 4>>
    /\ lastSent.maxPriorityFeePerGas = 46875000

\* C9: transactions are submitted for nonces of [FROM, TO] in ascending
\* order, for a higher nonce only when the call for the lower one is over,
\* and never for a nonce below the confirmed nonce that main read.
C9_AscendingSequentialSweep ==
    /\ [](\A k \in finished : k < n)
    /\ [][Sends => /\ FROM <= lastSent'.nonce /\ lastSent'.nonce <= TO
                   /\ lastSent'.nonce >= latest
                   /\ (lastSent # NoSent =>
                         /\ lastSent'.nonce >= lastSent.nonce
                         /\ (lastSent'.nonce > lastSent.nonce =>
                               lastSent.nonce \in finished))]_vars

\* nonce 0 was skipped as confirmed, nonce 1 is over, nonce 2 is submitted
C9_Witness ==
    /\ FROM = 0 /\ latest = 1 /\ finished = {1}
    /\ cpc = "wait" /\ lastSent.nonce = 2

\* C10: a receipt ends the nonce whatever its status: the call is over, the
\* fees are not bumped and nothing more is submitted for the nonce.
C10_ReceiptIsTerminal ==
    /\ [][Receives => /\ n \in finished' /\ outcome' = "receipt"
                      /\ cpc' = "main" /\ n' = n + 1
                      /\ TIP' = TIP /\ MAX' = MAX
                      /\ sentCount' = sentCount]_vars
    /\ [][(Sends \/ cpc' = "send") => (n' \notin finished)]_vars

\* a reverted receipt arrived and the call for the nonce is over
C10_Witness ==
    /\ receipt = "reverted" /\ outcome = "receipt" /\ cpc = "main"
    /\ n - 1 \in finished

\* C11: a timeout of the wait for the receipt (an error whose message has none
\* of the markers) ends the nonce: cancelNonce returns normally, the fees are
\* not bumped, nothing more is submitted for the nonce and main goes on.
C11_TimeoutIsTerminal ==
    /\ [][(Catches /\ cpc = "wait" /\ lastMsg' = {})
            => /\ outcome' = "failed" /\ n \in finished'
               /\ cpc' = "main" /\ n' = n + 1
               /\ TIP' = TIP /\ MAX' = MAX
               /\ sentCount' = sentCount]_vars
    /\ [][Sends => (lastSent'.nonce \notin finished)]_vars

\* the wait for a receipt timed out and main is about to go on with a nonce
C11_Witness ==
    /\ cpc = "main" /\ errorAt = "wait" /\ lastMsg = {} /\ outcome = "failed"
    /\ n - 1 \in finished /\ n <= TO

(***************************************************************************)
(* Properties of the auto controller (AutoSpec)                            *)
(***************************************************************************)

\* the four thresholds of the gates are all absent
AllGatesAbsent ==
    /\ env.MIN_BALANCE_ETH = Absent /\ env.MAX_L1_GWEI = Absent
    /\ env.MIN_EFFICIENCY_PERCENT = Absent /\ env.MAX_COST_PER_FCT_USD = Absent

\* a step in which a cycle is gated out
GatedOut == gatedRun' = gatedRun + 1

\* a step in which main comes back from miningLoop
Returns == apc = "session" /\ apc' \in {"cooldown", "exit"}

\* a step in which the estimates of a cycle come in
Decides == apc = "pick" /\ est' # NoEst

\* C15: with AUTO_LOOP false main runs one outer cycle whatever its outcome:
\* a gated cycle (a missing estimate included), a configuration error of the
\* spend cap and a finished session all make main return; main never sleeps
\* and never begins a second cycle.
C15_SingleRunIsOneCycle ==
    /\ []((apc # "idle" /\ ~env.AUTO_LOOP)
            => (cycles <= 1 /\ apc \notin {"gated", "cooldown"}))
    /\ [][(~env.AUTO_LOOP /\ (GatedOut \/ Returns)) => apc' = "exit"]_vars
    /\ [][(~env.AUTO_LOOP /\ Decides /\ apc' # "session") => apc' = "exit"]_vars
    /\ [][(~env.AUTO_LOOP /\ cycles = 1) => cycles' = 1]_vars

\* a single run whose session is over: main has returned after one cycle
C15_Witness ==
    /\ ~env.AUTO_LOOP /\ apc = "exit" /\ sessions = 1 /\ cycles = 1
    /\ mpc = "idle"

AbsentGateNeverGates ==
    /\ [](gateReason = "balance" => env.MIN_BALANCE_ETH # Absent)
    /\ [](gateReason = "gas" => env.MAX_L1_GWEI # Absent)
    /\ [](gateReason = "efficiency" => env.MIN_EFFICIENCY_PERCENT # Absent)
    /\ [](gateReason = "cost" => env.MAX_COST_PER_FCT_USD # Absent)

\* with the four thresholds absent the balance and the gas price are passed
OpenGatesLetThrough ==
    [][(AllGatesAbsent /\ apc \in {"balance", "gas"} /\ apc' # apc)
         => apc' \in {"gas", "pick"}]_vars

\* C17 as stated: a gate whose threshold is absent never gates out a cycle,
\* and with the four thresholds absent every cycle comes to the resolution of
\* the spend cap.
C17_EveryCycleReachesSpendCap ==
    /\ AbsentGateNeverGates
    /\ OpenGatesLetThrough
    /\ [][(AllGatesAbsent /\ apc = "pick" /\ apc' # "pick")
            => reached' = "cap"]_vars

\* C17: a gate whose threshold is absent never gates out a cycle, whatever is
\* observed and whatever waitCycles is; with the four thresholds absent every
\* cycle that gets an estimate comes to the resolution of the spend cap (a
\* cycle without an estimate is gated out or ends main).
C17_AbsentGateNeverGates ==
    /\ AbsentGateNeverGates
    /\ OpenGatesLetThrough
    /\ [][(AllGatesAbsent /\ Decides) => reached' = "cap"]_vars

\* a cycle without thresholds has come to the spend cap and runs a session
C17_Witness ==
    /\ AllGatesAbsent /\ reached = "cap" /\ apc = "session" /\ est # NoEst

\* the factor 1 + steps * AUTO_RELAX_STEP_PERCENT / 100 of the current cycle,
\* steps counting the cycles from the trigger on; 1 before the trigger
WaitFactor ==
    IF waitCycles >= env.AUTO_RELAX_AFTER_CYCLES
    THEN <<100 + (waitCycles - env.AUTO_RELAX_AFTER_CYCLES + 1)
                    * env.AUTO_RELAX_STEP_PERCENT, 100>>
    ELSE <<1, 1>>

\* threshold * WaitFactor and max(0, threshold / WaitFactor)
Multiplied(threshold) == <<threshold * WaitFactor[1], WaitFactor[2]>>
Divided(threshold) ==
    IF threshold < 0 THEN <<0, 1>> ELSE <<threshold * WaitFactor[2], WaitFactor[1]>>

\* the gas price is held against the multiplied ceiling
GasHeldAgainstRelaxed ==
    [][(apc = "gas" /\ apc' # "gas" /\ env.MAX_L1_GWEI # Absent)
         => (gateReason' = "gas"
               <=> Above(currentGwei', Multiplied(env.MAX_L1_GWEI)))]_vars

\* the efficiency is held against the divided floor
EfficiencyHeldAgainstRelaxed ==
    [][Decides
         => (gateReason' = "efficiency"
               <=> /\ env.MIN_EFFICIENCY_PERCENT # Absent
                   /\ Below(est'.efficiencyPercent,
                            Divided(env.MIN_EFFICIENCY_PERCENT)))]_vars

\* the cost per FCT is held against the multiplied ceiling
CostHeldAgainstRelaxed ==
    [][(Decides /\ gateReason' # "efficiency")
         => (gateReason' = "cost"
               <=> /\ env.MAX_COST_PER_FCT_USD # Absent
                   /\ Above(est'.costPerFctUsd,
                            Multiplied(env.MAX_COST_PER_FCT_USD)))]_vars

AtMost(p, q) == p[1] * q[2] <= q[1] * p[2]

\* the counts of gated cycles from the trigger on that are compared
FromTrigger == env.AUTO_RELAX_AFTER_CYCLES..(env.AUTO_RELAX_AFTER_CYCLES + MaxCycles)

\* before the trigger the thresholds are the configured ones
UnrelaxedBeforeTrigger ==
    \A w \in 0..(env.AUTO_RELAX_AFTER_CYCLES - 1) :
        /\ env.MAX_L1_GWEI # Absent
            => effectiveMaxGwei(w, env) = <<env.MAX_L1_GWEI, 1>>
        /\ env.MAX_COST_PER_FCT_USD # Absent
            => effectiveMaxCost(w, env) = <<env.MAX_COST_PER_FCT_USD, 1>>
        /\ env.MIN_EFFICIENCY_PERCENT # Absent
            => effectiveMinEff(w, env) = <<env.MIN_EFFICIENCY_PERCENT, 1>>

\* from the trigger on a longer wait never makes a threshold stricter
LooserWithLongerWait ==
    \A f1 \in FromTrigger, f2 \in FromTrigger :
        f1 < f2 =>
            /\ env.MAX_L1_GWEI # Absent
                => AtMost(effectiveMaxGwei(f1, env), effectiveMaxGwei(f2, env))
            /\ env.MAX_COST_PER_FCT_USD # Absent
                => AtMost(effectiveMaxCost(f1, env), effectiveMaxCost(f2, env))
            /\ env.MIN_EFFICIENCY_PERCENT # Absent
                => AtMost(effectiveMinEff(f2, env), effectiveMinEff(f1, env))

\* the thresholds a session was admitted with: the configured ones before the
\* trigger, never stricter ones after it
AdmittedWith ==
    apc = "session" =>
        /\ env.MAX_L1_GWEI # Absent
            => IF waitCycles < env.AUTO_RELAX_AFTER_CYCLES
               THEN effective.maxGwei = <<env.MAX_L1_GWEI, 1>>
               ELSE AtMost(<<env.MAX_L1_GWEI, 1>>, effective.maxGwei)
        /\ env.MAX_COST_PER_FCT_USD # Absent
            => IF waitCycles < env.AUTO_RELAX_AFTER_CYCLES
               THEN effective.maxCost = <<env.MAX_COST_PER_FCT_USD, 1>>
               ELSE AtMost(<<env.MAX_COST_PER_FCT_USD, 1>>, effective.maxCost)
        /\ env.MIN_EFFICIENCY_PERCENT # Absent
            => IF waitCycles < env.AUTO_RELAX_AFTER_CYCLES
               THEN effective.minEff = <<env.MIN_EFFICIENCY_PERCENT, 1>>
               ELSE AtMost(effective.minEff, <<env.MIN_EFFICIENCY_PERCENT, 1>>)

\* C19: while waitCycles < AUTO_RELAX_AFTER_CYCLES the effective thresholds
\* are the configured ones; for trigger <= f1 < f2 the relaxed gas and cost
\* ceilings at f2 are at least those at f1 and the relaxed minimum efficiency
\* at f2 is at most the one at f1.
C19_RelaxationIsMonotonic ==
    /\ UnrelaxedBeforeTrigger
    /\ LooserWithLongerWait
    /\ AdmittedWith

\* a session admitted under a gas ceiling that waiting has raised
C19_Witness ==
    /\ apc = "session" /\ waitCycles >= env.AUTO_RELAX_AFTER_CYCLES
    /\ env.MAX_L1_GWEI # Absent
    /\ ~AtMost(effective.maxGwei, <<env.MAX_L1_GWEI, 1>>)

\* the estimate of one transaction with its 10% buffer, in wei
BufferedEstimate == (est.estimatedEthBurn * 11) \div 10

\* C20: the spend cap a session is started with is between 0 and the balance,
\* and it covers the buffered estimate of one transaction whenever the
\* balance does, in mode "all" as in the modes with a cap.
C20_CapCoversOneTransaction ==
    apc = "session" =>
        /\ 0 <= spendCap /\ spendCap <= balance
        /\ balance >= BufferedEstimate => spendCap >= BufferedEstimate

\* the 1% of the balance that is to stay in the wallet
ReservedBuffer == balance \div 100

\* C21: the spend cap a session is started with is at most the balance minus
\* the reserved buffer (balance / 100), for an explicit cap that passed the
\* "exceeds wallet balance" check as for a cap raised to the minimum of one
\* transaction.
C21_CapLeavesTheBuffer ==
    apc = "session" => spendCap <= balance - ReservedBuffer

\* a step in which main calls miningLoop
StartsSession == apc = "pick" /\ apc' = "session"

\* C22: no session is started when the buffered estimate of one transaction
\* is above the balance, and a session is never started with a cap below the
\* estimate of one transaction at the selected size.
C22_NoSessionWithoutFunds ==
    /\ [][StartsSession => balance >= (est'.estimatedEthBurn * 11) \div 10]_vars
    /\ [](apc = "session" => spendCap >= est.estimatedEthBurn)

\* mode "cap" with a target count of transactions and no amount
TargetMode ==
    /\ env.AUTO_SPEND_MODE # "all"
    /\ ~(env.AUTO_SPEND_CAP_ETH > 0)
    /\ env.AUTO_TARGET_TXS > 0

\* C23 as stated: the cap derived from the target count is the estimate plus
\* 10%, rounded up to a whole wei, times the count.
C23_CapFromTargetRoundedUp ==
    (apc = "session" /\ TargetMode)
        => spendCap = ((est.estimatedEthBurn * 11 + 9) \div 10) * env.AUTO_TARGET_TXS

\* C23: the cap derived from the target count is the estimate plus 10%,
\* rounded down to a whole wei, times the count; an estimate of 20 and 5
\* transactions give 110 (0.02 ETH and 0.11 ETH in units of 0.001 ETH).
C23_CapFromTargetRoundedDown ==
    /\ (apc = "session" /\ TargetMode)
        => spendCap = ((est.estimatedEthBurn * 11) \div 10) * env.AUTO_TARGET_TXS
    /\ ((20 * 11) \div 10) * 5 = 110

\* a session whose cap was derived from two transactions of 2 wei
C23_Witness ==
    /\ apc = "session" /\ TargetMode
    /\ env.AUTO_TARGET_TXS = 2 /\ est.estimatedEthBurn = 2 /\ spendCap = 4

\* C24: in mode "all" the cap of a session is the balance minus balance / 100
\* in integer division (the balance itself when it is not above the buffer),
\* so it is never above the balance; a balance of 1000 gives 990 (1.0 ETH and
\* 0.99 ETH in units of 0.001 ETH); the choice "spend all" of the interactive
\* session computes the same cap.
C24_AllModeKeepsOnePercent ==
    /\ (apc = "session" /\ env.AUTO_SPEND_MODE = "all")
        => /\ spendCap = IF balance <= balance \div 100 THEN balance
                         ELSE balance - balance \div 100
           /\ spendCap <= balance
    /\ AllButBuffer(1000) = 990
    /\ \A b \in Balances \cup {1000} : SpendAllChoice(b) = AllButBuffer(b)

\* a session in mode "all" with a balance that has a buffer of 1 wei
C24_Witness ==
    /\ apc = "session" /\ env.AUTO_SPEND_MODE = "all"
    /\ balance = 110 /\ spendCap = 109

(***************************************************************************)
(* Properties of pickBestSizeAndEstimates (PickSpec)                       *)
(***************************************************************************)

\* e is within the cost ceiling and the efficiency floor of opts
Meets(e) ==
    /\ opts.maxCostPerFctUsd[1] = Absent
        \/ e.costPerFctUsd * opts.maxCostPerFctUsd[2] <= opts.maxCostPerFctUsd[1]
    /\ opts.minEfficiencyPercent[1] = Absent
        \/ e.efficiencyPercent * opts.minEfficiencyPercent[2]
              >= opts.minEfficiencyPercent[1]

\* the estimates of the candidates that meet both thresholds
Satisfying == {j \in DOMAIN evaluated : Meets(evaluated[j])}

\* C25: the candidate returned is within [minKb, maxKb]; when a candidate
\* meets the cost ceiling and the efficiency floor, the one returned meets
\* both and no candidate that meets both costs less per FCT.
C25_BestMeetsBothAndIsCheapest ==
    ppc = "returned" =>
        /\ best # NoEst => (opts.minKb <= best.kb /\ best.kb <= opts.maxKb)
        /\ Satisfying # {} =>
            /\ Meets(best)
            /\ \A j \in Satisfying : best.costPerFctUsd <= evaluated[j].costPerFctUsd

\* the first of the candidates that cost least per FCT
FirstCheapest ==
    CHOOSE j \in DOMAIN evaluated :
        /\ \A k \in DOMAIN evaluated :
              evaluated[j].costPerFctUsd <= evaluated[k].costPerFctUsd
        /\ \A k \in 1..(j - 1) :
              evaluated[k].costPerFctUsd > evaluated[j].costPerFctUsd

InOrder ==
    [][(apc' # apc) =>
         \/ apc = "balance" /\ apc' \in {"gas", "gated", "exit"}
         \/ apc = "gas" /\ apc' \in {"pick", "gated", "exit"}
         \/ apc = "pick" /\ apc' \in {"session", "gated", "exit", "threw"}
         \/ apc = "session" /\ apc' \in {"cooldown", "exit", "threw"}
         \/ apc \in {"gated", "cooldown"} /\ apc' = "balance"]_vars

\* a check that failed ends the cycle: nothing is observed after it
NothingAfterTheFailure ==
    /\ [][GatedOut => /\ apc' \in {"gated", "exit"}
                      /\ sessions' = sessions /\ submitted' = submitted]_vars
    /\ [](gateReason = "balance" => (currentGwei = Absent /\ est = NoEst))
    /\ [](gateReason = "gas" => est = NoEst)
    /\ [](gateReason # "none" => mpc = "idle")

\* a session is started only with every configured check passed
SessionAfterEveryCheck ==
    [][StartsSession =>
         /\ env.MIN_BALANCE_ETH = Absent \/ balance >= env.MIN_BALANCE_ETH
         /\ env.MAX_L1_GWEI = Absent
              \/ ~Above(currentGwei, Multiplied(env.MAX_L1_GWEI))
         /\ env.MIN_EFFICIENCY_PERCENT = Absent
              \/ ~Below(est'.efficiencyPercent, Divided(env.MIN_EFFICIENCY_PERCENT))
         /\ env.MAX_COST_PER_FCT_USD = Absent
              \/ ~Above(est'.costPerFctUsd, Multiplied(env.MAX_COST_PER_FCT_USD))
         /\ reached' = "cap" /\ gateReason' = "none"]_vars

\* C27: a cycle goes through balance floor, fee ceiling, size ranking and
\* estimate, efficiency and cost gate, spend cap and session in this order;
\* the first check that fails ends the cycle: nothing later is observed, no
\* session is started and nothing is submitted in that cycle.
C27_ChecksInFixedOrder ==
    /\ InOrder
    /\ NothingAfterTheFailure
    /\ SessionAfterEveryCheck
    /\ [][Submits => (apc = "session" /\ gateReason = "none" /\ reached = "cap")]_vars

\* with the four gates configured a session has submitted a transaction
C27_Witness ==
    /\ apc = "session" /\ submitted = 1
    /\ env.MIN_BALANCE_ETH # Absent /\ env.MAX_L1_GWEI # Absent
    /\ env.MIN_EFFICIENCY_PERCENT # Absent /\ env.MAX_COST_PER_FCT_USD # Absent

\* a step in which the estimate step of a cycle ends without estimates
EstimateFails == apc = "pick" /\ reached' = "estimate" /\ est' = NoEst

\* C28: with looping enabled a cycle whose estimates fail (an estimate that
\* throws for a candidate, or no candidate at all) is counted as a gated
\* cycle and retried after the cooldown: the controller does not end.
C28_EstimateFailureIsRetried ==
    [][(env.AUTO_LOOP /\ EstimateFails) => (GatedOut /\ apc' = "gated")]_vars

\* spend mode 'cap' with neither a positive cap nor a positive target
CapUnresolvable ==
    /\ env.AUTO_SPEND_MODE = "cap"
    /\ ~(env.AUTO_SPEND_CAP_ETH > 0)
    /\ ~(env.AUTO_TARGET_TXS > 0)

StatusPath == <<"preparing", "submitting", "confirming", "completed">>

Terminal == {"completed", "failed"}

\* the statuses of a log with a repeated report of the same status dropped
RECURSIVE Distinct(_)
Distinct(log) ==
    IF Len(log) <= 1 THEN log
    ELSE LET front == Distinct(SubSeq(log, 1, Len(log) - 1))
         IN IF log[Len(log)] = log[Len(log) - 1] THEN front
            ELSE Append(front, log[Len(log)])

AlongThePath(seen) ==
    /\ Len(seen) <= Len(StatusPath)
    /\ \A k \in 1..Len(seen) : seen[k] = StatusPath[k]

C31_FeesSharedByTheSweep ==
    /\ [][(TIP' # TIP \/ MAX' # MAX) => rejections' = rejections + 1]_vars
    /\ [][TIP' >= TIP /\ MAX' >= MAX]_vars
    /\ [][Sends => /\ lastSent'.maxPriorityFeePerGas = TIP
                   /\ lastSent'.maxFeePerGas = MaxOf(MAX, TIP)]_vars
    /\ [][(Sends /\ lastSent # NoSent) =>
            /\ lastSent'.maxPriorityFeePerGas >= lastSent.maxPriorityFeePerGas
            /\ lastSent'.maxFeePerGas >= lastSent.maxFeePerGas]_vars

\* the first attempt for a later nonce was sent with the tip that one
\* escalation of an earlier nonce left (30 gwei * 1.25)
C31_Witness ==
    /\ cpc = "wait" /\ i = 1 /\ finished # {} /\ lastSent.nonce = n
    /\ BUMP = <<5, 4>> /\ lastSent.maxPriorityFeePerGas = 37500000

\* C32: every transaction handed to wal.sendTransaction has maxFeePerGas >=
\* maxPriorityFeePerGas, whatever TIP and MAX started as and however often
\* they were bumped.
C32_MaxFeeCoversTheTip ==
    lastSent # NoSent => lastSent.maxFeePerGas >= lastSent.maxPriorityFeePerGas

\* a transaction was sent while MAX was below TIP
C32_Witness ==
    /\ cpc = "wait" /\ MAX < TIP
    /\ lastSent.maxPriorityFeePerGas = TIP /\ lastSent.maxFeePerGas = TIP

\* the three branches of the catch block, from the message alone
Resolving(msg) == msg \cap {"nonce too low", "already known"} # {}
Other(msg) == ~Resolving(msg) /\ ~Escalation(msg)

\* C33: an error of the wait for the receipt is classified as an error of
\* the submission is: an escalation message bumps both fees and goes back to
\* submit the same nonce, a nonce too low / already known message ends the
\* nonce as resolved, any other message ends it as failed.
C33_WaitErrorsClassifiedAlike ==
    /\ [][(Catches /\ cpc = "wait" /\ Escalation(lastMsg')) =>
            /\ IsNearest(TIP', TIP, BUMP)
            /\ IsNearest(MAX', MaxOf(MAX, TIP'), BUMP)
            /\ (i < 8 => (cpc' = "send" /\ n' = n /\ n \notin finished'))]_vars
    /\ [][(Catches /\ cpc = "wait" /\ Resolving(lastMsg')) =>
            (outcome' = "resolved" /\ n \in finished' /\ cpc' = "main")]_vars
    /\ [][(Catches /\ cpc = "wait" /\ Other(lastMsg')) =>
            (outcome' = "failed" /\ n \in finished' /\ cpc' = "main")]_vars
    /\ [][(Sends /\ errorAt = "wait" /\ i > 1) =>
            (lastSent'.nonce = lastSent.nonce /\ Escalation(lastMsg))]_vars

\* an accepted transaction failed as underpriced while its receipt was
\* awaited, and the nonce was submitted again
C33_Witness ==
    /\ cpc = "wait" /\ errorAt = "wait" /\ "underpriced" \in lastMsg
    /\ sentCount = 2 /\ i = 2

\* C34: a message with a terminal marker ends the nonce as resolved even if
\* it has an escalation marker too: no bump, no retry; and every message has
\* exactly one of the outcomes resolved, escalation (retry, or abandoned on
\* the last attempt) and failed.
C34_TerminalMarkerWins ==
    /\ [][(Catches /\ Resolving(lastMsg')) =>
            /\ outcome' = "resolved" /\ n \in finished' /\ cpc' = "main"
            /\ TIP' = TIP /\ MAX' = MAX /\ rejections' = rejections]_vars
    /\ [][(Catches /\ Escalation(lastMsg')) =>
            /\ rejections' = rejections + 1
            /\ outcome' = (IF i < 8 THEN "none" ELSE "abandoned")]_vars
    /\ [][(Catches /\ Other(lastMsg')) =>
            /\ outcome' = "failed"
            /\ TIP' = TIP /\ MAX' = MAX /\ rejections' = rejections]_vars
    /\ [](\A msg \in Messages :
            Cardinality({b \in {"resolved", "retry", "failed"} :
                            \/ b = "resolved" /\ Resolving(msg)
                            \/ b = "retry" /\ Escalation(msg)
                            \/ b = "failed" /\ Other(msg)}) = 1)

\* a message with a marker of both groups ended the nonce as resolved
C34_Witness ==
    /\ cpc = "main" /\ outcome = "resolved"
    /\ lastMsg = {"nonce too low", "underpriced"}

(***************************************************************************)
(* Properties of the session loop, continued (MiningSpec)                  *)
(***************************************************************************)

\* a step that ends an iteration of the while loop by going to the next one
NextIteration == mpc # "loop" /\ mpc' = "loop"

\* the costs of the iteration that ends in this step are positive
PositiveCosts ==
    /\ estimatedCost > 0
    /\ Len(completed') > Len(completed) =>
         completed'[Len(completed')].ethSpent > 0

\* C35: with positive costs an iteration of the while loop that does not
\* leave the loop strictly increases totalSpent, also with STOP_ON_TX_FAIL
\* false and a failing attempt, so the loop ends after finitely many
\* iterations.
C35_IterationSpendsOrLeaves ==
    [][(NextIteration /\ PositiveCosts) => totalSpent' > totalSpent]_vars

(***************************************************************************)
(* Properties of the auto controller, relaxation and the cap (AutoSpec)    *)
(***************************************************************************)

\* wait counts by which a linear relaxation of a positive threshold has
\* passed every observation of up to 100 times the threshold
LaterWaits == waitCycles..(env.AUTO_RELAX_AFTER_CYCLES + 100 * 100)

\* the observation that gated this cycle is admitted after w gated cycles
AdmittedAfter(w) ==
    CASE gateReason = "gas" -> ~Above(currentGwei, effectiveMaxGwei(w, env))
      [] gateReason = "efficiency" ->
           ~Below(est.efficiencyPercent, effectiveMinEff(w, env))
      [] gateReason = "cost" -> ~Above(est.costPerFctUsd, effectiveMaxCost(w, env))

\* C36: with AUTO_LOOP on, relaxation prevents starvation: whenever a cycle
\* is gated by the fee ceiling, the efficiency floor or the cost ceiling,
\* there is a number of further gated cycles after which the relaxed
\* threshold admits the same observation, so that observations that stay
\* bounded are admitted in the end and a session starts.
C36_RelaxationAdmitsInTheEnd ==
    (env.AUTO_LOOP /\ apc = "gated" /\ gateReason \in {"gas", "efficiency", "cost"})
        => \E w \in LaterWaits : AdmittedAfter(w)

LoopingWithCap ==
    /\ env.AUTO_LOOP /\ env.AUTO_SPEND_MODE # "all"
    /\ (env.AUTO_SPEND_CAP_ETH > 0 \/ env.AUTO_TARGET_TXS > 0)

\* the configured amount, else the amount derived from the target count
WantedCap(burn) ==
    IF env.AUTO_SPEND_CAP_ETH > 0 THEN env.AUTO_SPEND_CAP_ETH
    ELSE ((burn * 11) \div 10) * env.AUTO_TARGET_TXS

\* C38 as stated: the first cycle in which the configured cap exceeds the
\* balance ends the run: such a cycle is never waited out and retried.
C38_CycleBelowTheCapEndsTheRun ==
    [][(LoopingWithCap /\ env.AUTO_SPEND_CAP_ETH > balance' /\ apc' # apc
          /\ apc \in {"balance", "gas", "pick"})
         => apc' \notin {"gated", "cooldown"}]_vars

\* C38 amended: in a looping run with a cap, the first cycle that passes the
\* gates while the cap exceeds the balance ends the run: no session, no
\* cooldown, no further cycle; a session starts only while the cap is within
\* the balance.  A cycle that fails a gate is waited out whatever the balance.
C38_CapAboveBalanceEndsTheRun ==
    /\ [][(LoopingWithCap /\ apc = "pick" /\ reached' = "cap"
             /\ WantedCap(est'.estimatedEthBurn) > balance)
            => /\ apc' = "exit" /\ ~GatedOut
               /\ sessions' = sessions /\ waitCycles' = waitCycles]_vars
    /\ [][(LoopingWithCap /\ StartsSession)
            => WantedCap(est'.estimatedEthBurn) <= balance]_vars
    /\ [][(apc = "exit") => (apc' = "exit" /\ cycles' = cycles /\ sessions' = sessions)]_vars

\* after a session the balance was found below the cap and the run ended
C38_Witness ==
    /\ LoopingWithCap /\ env.AUTO_SPEND_CAP_ETH > balance
    /\ apc = "exit" /\ reached = "cap" /\ sessions = 1 /\ cycles = 2

(***************************************************************************)
(* Properties of the dashboard totals (MiningSpec)                         *)
(***************************************************************************)

\* C39: during a session the totals of the dashboard are the totals of the
\* loop: after every completeTransaction totalETHSpent = totalSpent,
\* totalFCTMinted = totalFctMinted, totalTransactions is the number of
\* completed transactions and remainingBudget = sessionTarget -
\* totalETHSpent; updateTransaction without a transaction in progress
\* changes nothing.
C39_DashboardMirrorsTheLoop ==
    /\ [](mpc # "idle" =>
            /\ stats.totalETHSpent = totalSpent
            /\ stats.totalFCTMinted = totalFctMinted
            /\ stats.totalTransactions = Len(completed)
            /\ stats.sessionTarget = spendCap
            /\ stats.remainingBudget = stats.sessionTarget - stats.totalETHSpent)
    /\ [][(stats' # stats) => Len(completed') = Len(completed) + 1]_vars
    /\ [][(currentTx = NoTx /\ currentTx' # NoTx) => currentTx'.status = "preparing"]_vars
    /\ [](\A st \in {"submitting", "confirming", "completed", "failed"} :
            /\ updateTransaction(NoTx, st) = NoTx
            /\ reported(reports, NoTx, st) = reports)

\* two transactions were completed with a cost and a mint
C39_Witness ==
    /\ Len(completed) = 2 /\ stats.totalTransactions = 2
    /\ stats.totalETHSpent >= 2 /\ stats.totalFCTMinted >= 1
    /\ stats.remainingBudget < stats.sessionTarget

(***************************************************************************)
(* The two session loops (BothSpec)                                        *)
(***************************************************************************)

\* C40: with STOP_ON_TX_FAIL true the loop of config.ts and the legacy loop
\* take the same steps from every state that either can reach: for the same
\* estimates and transaction outcomes they submit the same transactions and
\* end with the same totalSpent, totalFctMinted and transactionCount.
C40_SameAsLegacyWhenStopping ==
    [][STOP_ON_TX_FAIL => (MiningNext <=> LegacyNext)]_vars

\* with the flag on, an error of getGasPrice ended a session after one
\* completed transaction
C40_Witness ==
    /\ STOP_ON_TX_FAIL /\ mpc = "summary" /\ Len(completed) = 1
    /\ failures = 1 /\ reports = <<"preparing", "failed">>
    /\ transactionCount = 2

====
